---- MODULE Spec2Model ----
(***************************************************************************)
(* Extension discovery and command execution of universal-connectivity    *)
(* (js-peer).  Two ExtensionManager classes exist in the repository: the   *)
(* identify-based one (offers track a peer list, manifests are fetched     *)
(* over a direct stream) and the pubsub-based one (offers track a single   *)
(* publisher, offer count capped by MAX_OFFERS).  The variables offers,    *)
(* installed, listeners, storage, fetches belong to the identify-based     *)
(* manager; psOffers and psInstalled to the pubsub-based one.              *)
(***************************************************************************)
EXTENDS Integers, Sequences, FiniteSets, Bags, TLC

\* ---------------------------------------------------------------- bounds
MaxTime == 1
MaxFetches == 2
MaxProtocols == 1
MaxCalls == 1
MaxSteps == 3
MaxInputLen == 6
MaxProtocolWords == 6
MaxSegmentLen == 2
MaxRequests == 2

\* ------------------------------------------------------- program constants
MAX_OFFERS == 10
\* imported from './constants'; only its name is among the sources
EXTENSION_DISCOVERY_TOPIC == "EXTENSION_DISCOVERY_TOPIC"

\* ------------------------------------------------------------ input sets
\* Extension ids that occur as map keys (taken from capability strings) in
\* the specification Spec, and the ids a peer may put into a manifest.
ExtIds == {"sheet"}
ManifestIds == {"sheet", "todo"}
Peers == {"pA", "pB"}
Versions == {"1.0.0"}
ListenerIds == {"l1"}
\* a listener that throws whenever it is called
ThrowingListeners == {"lThrows"}

\* lastSuccessfulPeerId === undefined
NoPeer == "undefined"

VARIABLES
    offers,       \* ExtensionManager.offers: extension id -> ExtensionOffer
    installed,    \* ExtensionManager.installed: extension id -> InstalledExtension
    listeners,    \* ExtensionManager.listeners
    storage,      \* localStorage[STORAGE_KEY]
    storageFails, \* localStorage.setItem throws (quota exceeded, storage disabled)
    fetches,      \* handleExtensionDiscovery calls suspended in await fetchManifest (a bag)
    calls,        \* executeCommand calls suspended in await executeOnPeer
    now,          \* Date.now()
    notice,       \* what the last handler returned and what its notifyListeners calls showed
    psOffers,     \* pubsub ExtensionManager.offers, in Map insertion order
    psInstalled,  \* pubsub ExtensionManager.installed
    steps,        \* handlers run so far in the step-bounded specifications
    pendingRequests,  \* pubsub ExtensionProtocol.pendingRequests (the request ids)
    subscribedTopics, \* pubsub ExtensionProtocol.subscribedTopics
    requestIds,   \* the ids uuidv4() has returned to the pubsub protocol
    psCalls,      \* pubsub ExtensionProtocol.executeCommand calls that have not returned
    parse,        \* the string given to a parser of the command bar and what it returned
    timers,       \* the request ids whose setTimeout of the pubsub protocol is armed
    running,      \* ExtensionManager: "new", "started" (identify listener registered), "stopped"
    psRunning,    \* pubsub ExtensionManager: "new", "started", "stopped"
    dmPeers,      \* DirectMessage.dmPeers
    advertised    \* per peer, the protocols its identify events have listed so far

vars == <<offers, installed, listeners, storage, storageFails, fetches, calls, now,
          notice, psOffers, psInstalled, steps, pendingRequests, subscribedTopics,
          requestIds, psCalls, parse, timers, running, psRunning, dmPeers,
          advertised>>

\* the pubsub command protocol and the parsers; with them, the maps and calls
\* of the identify-based manager and protocol, and the maps of the
\* pubsub-based manager
cmdVars == <<pendingRequests, subscribedTopics, requestIds, psCalls, parse, timers,
            running, psRunning, dmPeers, advertised>>
\* the same without the record of what peers advertised
identifyFrame == <<psOffers, psInstalled, pendingRequests, subscribedTopics, requestIds,
                  psCalls, parse, timers, running, psRunning, dmPeers>>
idVars == <<offers, installed, fetches, calls, cmdVars>>
psVars == <<psOffers, psInstalled, cmdVars>>

\* ------------------------------------------------------------- helpers
\* Array.prototype.includes
includes(s, e) == \E i \in 1..Len(s) : s[i] = e

\* Array.prototype.filter(p => p !== e)
filterNot(s, e) == SelectSeq(s, LAMBDA p : p # e)

\* A JavaScript Map: the values by key, and the keys in insertion order (the
\* order of entries(), values() and forEach).  set() of a present key keeps
\* its place, delete() closes the gap.
EmptyMap == [keys |-> << >>, val |-> << >>]
MapHas(m, k) == k \in DOMAIN m.val
MapGet(m, k) == m.val[k]
MapKeys(m) == DOMAIN m.val
MapSize(m) == Len(m.keys)
MapSet(m, k, v) ==
    [keys |-> IF MapHas(m, k) THEN m.keys ELSE Append(m.keys, k),
     val |-> [x \in (DOMAIN m.val) \cup {k} |-> IF x = k THEN v ELSE m.val[x]]]
MapDelete(m, k) ==
    [keys |-> filterNot(m.keys, k),
     val |-> [x \in (DOMAIN m.val) \ {k} |-> m.val[x]]]
\* Array.from(m.values()) and Array.from(m.entries())
MapValues(m) == [n \in 1..Len(m.keys) |-> m.val[m.keys[n]]]
MapEntries(m) == [n \in 1..Len(m.keys) |-> <<m.keys[n], m.val[m.keys[n]]>>]
\* new Map(entries): a later entry with the same key replaces the value
RECURSIVE MapFrom(_)
MapFrom(entries) ==
    IF entries = << >> THEN EmptyMap
    ELSE LET e == entries[Len(entries)]
         IN MapSet(MapFrom(SubSeq(entries, 1, Len(entries) - 1)), e[1], e[2])

NoDup(s) == \A i, j \in 1..Len(s) : s[i] = s[j] => i = j

\* ------------------------------------------------ protocol identifiers
\* A protocol string is modelled by its "/"-separated segments after the
\* leading slash: "/uc/extension/sheet/1.0.0" is <<"uc","extension","sheet","1.0.0">>.
getExtensionProtocol(extensionId, version) == <<"uc", "extension", extensionId, version>>

\* protocol.startsWith(EXTENSION_PROTOCOL_PREFIX)
startsWithPrefix(protocol) ==
    Len(protocol) >= 3 /\ protocol[1] = "uc" /\ protocol[2] = "extension"

\* /^\/uc\/extension\/([^/]+)\/([^/]+)$/ : exactly two non-empty segments after the prefix
parseExtensionProtocol(protocol) ==
    IF Len(protocol) = 4 /\ protocol[1] = "uc" /\ protocol[2] = "extension"
       /\ protocol[3] # "" /\ protocol[4] # ""
    THEN [matched |-> TRUE, extensionId |-> protocol[3], version |-> protocol[4]]
    ELSE [matched |-> FALSE, extensionId |-> "", version |-> ""]

\* --------------------------------------------------------- command bar
\* Strings the parsers take apart are sequences of one-character strings.
\* /\s/ and String.prototype.trim agree on what white space is.
isWhitespace(ch) == ch \in {" ", "\t", "\n"}

RECURSIVE trimStart(_)
trimStart(s) ==
    IF s # << >> /\ isWhitespace(Head(s)) THEN trimStart(Tail(s)) ELSE s

RECURSIVE trimEnd(_)
trimEnd(s) ==
    IF s # << >> /\ isWhitespace(s[Len(s)]) THEN trimEnd(SubSeq(s, 1, Len(s) - 1)) ELSE s

\* String.prototype.trim
trim(s) == trimEnd(trimStart(s))

\* String.prototype.lastIndexOf, 1-based, 0 for not found
lastIndexOf(s, ch) ==
    IF \E i \in 1..Len(s) : s[i] = ch
    THEN CHOOSE i \in 1..Len(s) : s[i] = ch /\ \A j \in (i + 1)..Len(s) : s[j] # ch
    ELSE 0

\* String.prototype.indexOf, 1-based, 0 for not found
indexOf(s, ch) ==
    IF \E i \in 1..Len(s) : s[i] = ch
    THEN CHOOSE i \in 1..Len(s) : s[i] = ch /\ \A j \in 1..(i - 1) : s[j] # ch
    ELSE 0

\* String.prototype.split(/\s+/): the pieces between the runs of white space;
\* a run at either end leaves an empty piece there, and the empty string
\* gives one empty piece.
RECURSIVE split(_)
split(s) ==
    IF \A i \in 1..Len(s) : ~isWhitespace(s[i]) THEN <<s>>
    ELSE LET i == CHOOSE k \in 1..Len(s) :
                     isWhitespace(s[k]) /\ \A j \in 1..(k - 1) : ~isWhitespace(s[j])
         IN <<SubSeq(s, 1, i - 1)>> \o split(trimStart(SubSeq(s, i, Len(s))))

\* command-parser.ts isCommand
isCommand(input) ==
    LET t == trim(input) IN t # << >> /\ t[1] = "/"

NullCommand ==
    [isNull |-> TRUE, extensionId |-> << >>, command |-> << >>, args |-> << >>, raw |-> << >>]

\* command-parser.ts parseCommand
parseCommand(input) ==
    LET trimmed == trim(input)
        withoutSlash == Tail(trimmed)
        parts == split(withoutSlash)
        firstPart == parts[1]
        args == Tail(parts)
        dashIndex == indexOf(firstPart, "-")
    IN IF ~isCommand(trimmed) THEN NullCommand
       ELSE IF Len(parts) = 0 THEN NullCommand
       ELSE IF dashIndex = 0
       THEN [isNull |-> FALSE, extensionId |-> firstPart,
             command |-> <<"d", "e", "f", "a", "u", "l", "t">>, args |-> args, raw |-> input]
       ELSE [isNull |-> FALSE, extensionId |-> SubSeq(firstPart, 1, dashIndex - 1),
             command |-> SubSeq(firstPart, dashIndex + 1, Len(firstPart)),
             args |-> args, raw |-> input]

\* fault: a command needs an extension id only
isValidCommand_ExtensionOnly(p) ==
    ~p.isNull /\ Len(p.extensionId) > 0

\* command-parser.ts isValidCommand
isValidCommand(p) ==
    ~p.isNull /\ Len(p.extensionId) > 0 /\ Len(p.command) > 0

\* No parser has been given anything
NoParse == [op |-> "none", input |-> << >>, output |-> << >>, valid |-> FALSE]

\* parseCommand(input) for the input on record
parseCommandCall ==
    /\ parse.op = "input"
    /\ parse' = [parse EXCEPT !.op = "parseCommand", !.output = parseCommand(parse.input)]
    /\ UNCHANGED <<offers, installed, listeners, storage, storageFails, fetches, calls,
                   now, notice, psOffers, psInstalled, steps, pendingRequests,
                   subscribedTopics, requestIds, psCalls, timers, running, psRunning,
                   dmPeers, advertised>>

\* isValidCommand(parsed) for the result on record
isValidCommandCall ==
    /\ parse.op = "parseCommand"
    /\ parse' = [parse EXCEPT !.op = "isValidCommand",
                                !.valid = isValidCommand(parse.output)]
    /\ UNCHANGED <<offers, installed, listeners, storage, storageFails, fetches, calls,
                   now, notice, psOffers, psInstalled, steps, pendingRequests,
                   subscribedTopics, requestIds, psCalls, timers, running, psRunning,
                   dmPeers, advertised>>

\* ------------------------------------- protocol identifiers as strings
\* The same two helpers on the characters of the strings.
\* `/uc/extension/${extensionId}/${version}`
getExtensionProtocolString(extensionId, version) ==
    <<"/", "u", "c", "/", "e", "x", "t", "e", "n", "s", "i", "o", "n", "/">>
       \o extensionId \o <<"/">> \o version

\* [^/]+ at the start of s: the length of the longest prefix without a slash
\* (the quantifier is greedy, and what follows it in the pattern cannot
\* match inside such a prefix)
noSlashRun(s) ==
    CHOOSE k \in 0..Len(s) :
        (\A i \in 1..k : s[i] # "/") /\ (k = Len(s) \/ s[k + 1] = "/")

NoMatch == [matched |-> FALSE, extensionId |-> << >>, version |-> << >>]

\* fault: the pattern without its closing $
parseExtensionProtocolString_Unanchored(protocol) ==
    LET prefix == <<"/", "u", "c", "/", "e", "x", "t", "e", "n", "s", "i", "o", "n", "/">>
        rest == SubSeq(protocol, Len(prefix) + 1, Len(protocol))
        n1 == noSlashRun(rest)
        rest2 == SubSeq(rest, n1 + 2, Len(rest))
        n2 == noSlashRun(rest2)
    IN IF /\ Len(protocol) >= Len(prefix)
          /\ SubSeq(protocol, 1, Len(prefix)) = prefix
          /\ n1 >= 1
          /\ n1 < Len(rest)
          /\ n2 >= 1
       THEN [matched |-> TRUE, extensionId |-> SubSeq(rest, 1, n1),
             version |-> SubSeq(rest2, 1, n2)]
       ELSE NoMatch

\* protocol.match(/^\/uc\/extension\/([^/]+)\/([^/]+)$/): the literal prefix
\* from the start, one or more characters that are not a slash, a slash, one
\* or more characters that are not a slash, the end of the string
parseExtensionProtocolString(protocol) ==
    LET prefix == <<"/", "u", "c", "/", "e", "x", "t", "e", "n", "s", "i", "o", "n", "/">>
        rest == SubSeq(protocol, Len(prefix) + 1, Len(protocol))
        n1 == noSlashRun(rest)
        rest2 == SubSeq(rest, n1 + 2, Len(rest))
        n2 == noSlashRun(rest2)
    IN IF /\ Len(protocol) >= Len(prefix)
          /\ SubSeq(protocol, 1, Len(prefix)) = prefix
          /\ n1 >= 1
          /\ n1 < Len(rest)
          /\ n2 >= 1
          /\ n2 = Len(rest2)
       THEN [matched |-> TRUE, extensionId |-> SubSeq(rest, 1, n1),
             version |-> SubSeq(rest2, 1, n2)]
       ELSE NoMatch

\* parseExtensionProtocol(protocol) for the string on record (the input on
\* record is the list of the arguments)
parseExtensionProtocolCall ==
    /\ parse.op = "protocol"
    /\ parse' = [parse EXCEPT !.op = "parseExtensionProtocol",
                              !.output = parseExtensionProtocolString(parse.input[1])]
    /\ UNCHANGED <<offers, installed, listeners, storage, storageFails, fetches, calls,
                   now, notice, psOffers, psInstalled, steps, pendingRequests,
                   subscribedTopics, requestIds, psCalls, timers, running, psRunning,
                   dmPeers, advertised>>

\* getExtensionProtocol(extensionId, version) for the pair on record
getExtensionProtocolCall ==
    /\ parse.op = "pair"
    /\ parse' = [parse EXCEPT !.op = "getExtensionProtocol",
                              !.output = getExtensionProtocolString(parse.input[1],
                                                                    parse.input[2])]
    /\ UNCHANGED <<offers, installed, listeners, storage, storageFails, fetches, calls,
                   now, notice, psOffers, psInstalled, steps, pendingRequests,
                   subscribedTopics, requestIds, psCalls, timers, running, psRunning,
                   dmPeers, advertised>>

\* parseExtensionProtocol of the string getExtensionProtocol has built
parseBackCall ==
    /\ parse.op = "getExtensionProtocol"
    /\ parse' = [parse EXCEPT !.op = "parseBack",
                              !.output = parseExtensionProtocolString(parse.output)]
    /\ UNCHANGED <<offers, installed, listeners, storage, storageFails, fetches, calls,
                   now, notice, psOffers, psInstalled, steps, pendingRequests,
                   subscribedTopics, requestIds, psCalls, timers, running, psRunning,
                   dmPeers, advertised>>

\* ------------------------------------------------------------ manifests
\* A manifest is carried around whole; of its fields only id and version
\* are ever read by the manager and the protocol.
Manifests == [id : ManifestIds, version : Versions]

\* ExtensionManager.isValidManifest: a truthy object whose fields have the
\* required primitive types (typesOk: id, name, description, icon, publicUrl
\* and version are strings and commands is an array).
isValidManifest(m) ==
    /\ m.isObject
    /\ m.typesOk

\* ----------------------------------------------------------- storage
\* JSON.stringify of one InstalledExtension: an undefined
\* lastSuccessfulPeerId is dropped (NoPeer stands for the absent key).
JSONrecord(e) ==
    [manifest |-> e.manifest, installDate |-> e.installDate, enabled |-> e.enabled,
     hasPeerIds |-> TRUE, peerIds |-> e.peerIds,
     lastSuccessfulPeerId |-> e.lastSuccessfulPeerId]

\* JSON.stringify(Array.from(installed.entries()))
JSONstringify(i) ==
    [n \in 1..Len(i.keys) |-> <<i.keys[n], JSONrecord(i.val[i.keys[n]])>>]

\* ExtensionManager.saveInstalledToStorage: a failing setItem is caught and
\* logged, and what was stored before stays
saveInstalledToStorage(i, stor) ==
    IF storageFails THEN stor ELSE [present |-> TRUE, valid |-> TRUE, data |-> JSONstringify(i)]

\* fault: the migration empties the peer list of every record
loadRecord_MigrateAlways(r) ==
    [manifest |-> r.manifest, installDate |-> r.installDate, enabled |-> r.enabled,
     peerIds |-> << >>, lastSuccessfulPeerId |-> r.lastSuccessfulPeerId]

\* JSON.parse of one record, then the migration of records that have no
\* peerIds array
loadRecord(r) ==
    [manifest |-> r.manifest, installDate |-> r.installDate, enabled |-> r.enabled,
     peerIds |-> IF r.hasPeerIds THEN r.peerIds ELSE << >>,
     lastSuccessfulPeerId |-> r.lastSuccessfulPeerId]

\* ExtensionManager.loadInstalledFromStorage: nothing stored, or a blob that
\* getItem, JSON.parse, the migration loop or new Map() throws on (valid is
\* FALSE), leaves the empty map of the field initializer.
loadInstalledFromStorage(stor) ==
    IF ~stor.present \/ ~stor.valid THEN EmptyMap
    ELSE MapFrom([n \in 1..Len(stor.data) |->
                    <<stor.data[n][1], loadRecord(stor.data[n][2])>>])

\* ----------------------------------------------------------- listeners
\* fault: no try/catch around listener(): forEach ends at the listener that
\* throws, and only it and the well-behaved listeners before it were called
\* (here: none of the others)
notifyListeners_StopsAtThrow(notes, o, i) ==
    Append(notes, [invoked |-> IF listeners \cap ThrowingListeners # {}
                               THEN listeners \cap ThrowingListeners ELSE listeners,
                   offers |-> MapKeys(o), installed |-> MapKeys(i)])

\* ExtensionManager.notifyListeners: every subscribed listener is called (an
\* exception of one is caught); each sees the maps as they are at the call.
notifyListeners(notes, o, i) ==
    Append(notes, [invoked |-> listeners, offers |-> MapKeys(o), installed |-> MapKeys(i)])

\* the listeners of that call whose exception was caught and logged
caught(note) == note.invoked \cap ThrowingListeners

\* The record of a handler run: what it was, what it returned or threw, the
\* notifyListeners calls it made, and (executeCommand) the peers it reported.
Notice(op, x, result, notes, detail) ==
    [op |-> op, extensionId |-> x, result |-> result, notes |-> notes, detail |-> detail,
     attempts |-> << >>]

\* One stream a fetch or a command call has opened: the peer dialed, whether
\* the stream is open, closed or aborted, what came back on it (nothing, a
\* response for the request sent, another one) and whether the remote peer
\* carried out the request.
Attempt(peerId, stream, answer, executed) ==
    [peerId |-> peerId, stream |-> stream, answer |-> answer, executed |-> executed]

\* fault: no finally block
releaseStream_Never(closes) == "open"

\* fault: a stream whose close() throws is left as it is
releaseStream_NoAbort(closes) == IF closes THEN "closed" ELSE "open"

\* The finally block of fetchManifest and executeOnPeer: close() under a 5 s
\* deadline, and abort() when close() throws.
releaseStream(closes) == IF closes THEN "closed" ELSE "aborted"

\* ------------------------------------------------ identify-based registry
\* ExtensionManager.isInstalled
isInstalled(i, extensionId) == MapHas(i, extensionId)

\* The part of the manager's state a handler works on, threaded through the
\* calls it makes.
Cur == [offers |-> offers, installed |-> installed, storage |-> storage,
        fetches |-> fetches, notes |-> << >>]

\* fault: the peer is appended without the includes() test
updateInstalledPeers_NoIncludesTest(st, extensionId, peerId) ==
    IF MapHas(st.installed, extensionId)
    THEN LET i2 == [st.installed EXCEPT !.val[extensionId].peerIds = Append(@, peerId)]
         IN [st EXCEPT !.installed = i2,
                       !.storage = saveInstalledToStorage(i2, st.storage)]
    ELSE st

\* fault: the peer is appended in memory only
updateInstalledPeers_NoSave(st, extensionId, peerId) ==
    IF MapHas(st.installed, extensionId)
       /\ ~includes(MapGet(st.installed, extensionId).peerIds, peerId)
    THEN [st EXCEPT !.installed.val[extensionId].peerIds = Append(@, peerId)]
    ELSE st

\* ExtensionManager.updateInstalledPeers
updateInstalledPeers(st, extensionId, peerId) ==
    IF MapHas(st.installed, extensionId)
       /\ ~includes(MapGet(st.installed, extensionId).peerIds, peerId)
    THEN LET i2 == [st.installed EXCEPT !.val[extensionId].peerIds = Append(@, peerId)]
         IN [st EXCEPT !.installed = i2,
                       !.storage = saveInstalledToStorage(i2, st.storage)]
    ELSE st

\* fault: the manifest is fetched on every sighting
handleExtensionDiscovery_AlwaysFetch(st, peerId, extensionId, protocol) ==
    LET st1 == IF MapHas(st.offers, extensionId)
                  /\ ~includes(MapGet(st.offers, extensionId).peerIds, peerId)
               THEN LET o2 == [st.offers EXCEPT
                                  !.val[extensionId].peerIds = Append(@, peerId),
                                  !.val[extensionId].timestamp = now]
                    IN [st EXCEPT !.offers = o2,
                                  !.notes = notifyListeners(st.notes, o2, st.installed)]
               ELSE st
        st2 == updateInstalledPeers(st1, extensionId, peerId)
    IN [st2 EXCEPT !.fetches = @ (+) SetToBag({[peerId |-> peerId,
                                                extensionId |-> extensionId,
                                                protocol |-> protocol]})]

\* ExtensionManager.handleExtensionDiscovery up to its first await: either the
\* peer is added to what already tracks the extension, or a manifest fetch
\* from the peer is started and the call suspends.
handleExtensionDiscovery(st, peerId, extensionId, protocol) ==
    IF MapHas(st.offers, extensionId)
    THEN LET existingOffer == MapGet(st.offers, extensionId)
             st1 == IF ~includes(existingOffer.peerIds, peerId)
                    THEN LET o2 == [st.offers EXCEPT
                                       !.val[extensionId].peerIds = Append(@, peerId),
                                       !.val[extensionId].timestamp = now]
                         IN [st EXCEPT !.offers = o2,
                                       !.notes = notifyListeners(st.notes, o2, st.installed)]
                    ELSE st
         IN updateInstalledPeers(st1, extensionId, peerId)
    ELSE IF isInstalled(st.installed, extensionId)
    THEN updateInstalledPeers(st, extensionId, peerId)
    ELSE [st EXCEPT !.fetches = @ (+) SetToBag({[peerId |-> peerId,
                                                  extensionId |-> extensionId,
                                                  protocol |-> protocol]})]

\* ExtensionManager.processProtocols
RECURSIVE processProtocols(_, _, _)
processProtocols(st, peerId, protocols) ==
    IF protocols = << >> THEN st
    ELSE LET protocol == Head(protocols)
             parsed == parseExtensionProtocol(protocol)
             st1 == IF startsWithPrefix(protocol) /\ parsed.matched
                    THEN handleExtensionDiscovery(st, peerId, parsed.extensionId, protocol)
                    ELSE st
         IN processProtocols(st1, peerId, Tail(protocols))

\* The extension ids processProtocols passes to handleExtensionDiscovery, in
\* the order of the protocol list
sightedIds(protocols) ==
    LET hits == SelectSeq(protocols, LAMBDA protocol :
                    startsWithPrefix(protocol) /\ parseExtensionProtocol(protocol).matched)
    IN [k \in 1..Len(hits) |-> parseExtensionProtocol(hits[k]).extensionId]

\* ExtensionManager.handleIdentify: a peer:identify event (start() feeds the
\* protocols of already connected peers through the same processProtocols).
\* The notice names the peer and then the extension ids sighted.
handleIdentifyEvent(peerId, protocols) ==
    LET st == processProtocols(Cur, peerId, protocols)
    IN /\ running = "started"
       /\ BagCardinality(st.fetches) <= MaxFetches
       /\ offers' = st.offers
       /\ installed' = st.installed
       /\ storage' = st.storage
       /\ fetches' = st.fetches
       /\ notice' = Notice("handleIdentify", "", "void", st.notes,
                           <<peerId>> \o sightedIds(protocols))
       /\ UNCHANGED <<listeners, storageFails, calls, now, identifyFrame>>

handleIdentify(peerId, protocols) ==
    handleIdentifyEvent(peerId, protocols) /\ UNCHANGED advertised

\* The same event, with the protocols it lists kept on record for the peer
peerIdentify(peerId, protocols) ==
    /\ handleIdentifyEvent(peerId, protocols)
    /\ advertised' = [advertised EXCEPT ![peerId] =
                          @ \cup {protocols[k] : k \in 1..Len(protocols)}]

\* ExtensionManager.fetchManifest: what the exchange on the stream yields.
\* A response is taken when its payload tag is 'manifest' or absent and it
\* carries a manifest; everything else, and every dial, write or read failure,
\* throws.  The conversion gives every field a string ('' when missing) and
\* commands an array.
fetchManifest(response) ==
    IF response.arrived
       /\ (response.payload = "manifest" \/ response.payload = "")
       /\ response.hasManifest
    THEN [thrown |-> FALSE,
          manifest |-> [isObject |-> TRUE, typesOk |-> TRUE,
                        id |-> response.manifest.id,
                        version |-> response.manifest.version]]
    ELSE [thrown |-> TRUE,
          manifest |-> [isObject |-> FALSE, typesOk |-> FALSE, id |-> "", version |-> ""]]

\* The offers map after a fetched manifest has been accepted (lines 125-131)
recordOffer(o, peerId, extensionId, manifest) ==
    MapSet(o, extensionId,
           [manifest |-> [id |-> manifest.id, version |-> manifest.version],
            timestamp |-> now, peerIds |-> <<peerId>>])

\* fault: a fetch that fails is started again
fetchManifestDone_Retry(f, response) ==
    LET got == fetchManifest(response)
        accepted == ~got.thrown /\ isValidManifest(got.manifest)
        o2 == recordOffer(offers, f.peerId, f.extensionId, got.manifest)
    IN /\ BagIn(f, fetches)
       /\ fetches' = IF accepted THEN fetches (-) SetToBag({f}) ELSE fetches
       /\ offers' = IF accepted THEN o2 ELSE offers
       /\ notice' = Notice("fetchManifest", f.extensionId,
                           IF accepted THEN "offer" ELSE "none",
                           IF accepted THEN notifyListeners(<< >>, o2, installed)
                           ELSE << >>,
                           <<f.peerId, got.manifest.id>>)
       /\ UNCHANGED <<installed, listeners, storage, storageFails, calls, now, psVars>>

\* ExtensionManager.handleExtensionDiscovery from the await on: the fetch of
\* the suspended call f resolves or throws.  Inside fetchManifest the stream,
\* if the dial opened one, is released before the result gets here.
fetchManifestDone(f, response) ==
    LET got == fetchManifest(response)
        accepted == ~got.thrown /\ isValidManifest(got.manifest)
        o2 == recordOffer(offers, f.peerId, f.extensionId, got.manifest)
    IN /\ BagIn(f, fetches)
       /\ fetches' = fetches (-) SetToBag({f})
       /\ offers' = IF accepted THEN o2 ELSE offers
       /\ notice' = [Notice("fetchManifest", f.extensionId,
                             IF accepted THEN "offer" ELSE "none",
                             IF accepted THEN notifyListeners(<< >>, o2, installed)
                             ELSE << >>,
                             <<f.peerId, got.manifest.id>>)
                        EXCEPT !.attempts =
                           IF response.opened
                           THEN <<Attempt(f.peerId, releaseStream(response.closes),
                                          IF response.arrived THEN "other" ELSE "none",
                                          FALSE)>>
                           ELSE << >>]
       /\ UNCHANGED <<installed, listeners, storage, storageFails, calls, now, psVars>>

\* Array.prototype.sort((a, b) => b.timestamp - a.timestamp): a stable sort,
\* newest first; e goes behind every element that is not older than it.
RECURSIVE sortNewestFirst(_)
sortNewestFirst(arr) ==
    IF arr = << >> THEN << >>
    ELSE LET done == sortNewestFirst(SubSeq(arr, 1, Len(arr) - 1))
             e == arr[Len(arr)]
             ahead == SelectSeq(done, LAMBDA a : a.timestamp >= e.timestamp)
             behind == SelectSeq(done, LAMBDA a : a.timestamp < e.timestamp)
         IN ahead \o <<e>> \o behind

\* ExtensionManager.getAvailableOffers
getAvailableOffers(o) == sortNewestFirst(MapValues(o))

\* fault: only the first peer of the offer is carried over
newInstalledExtension_FirstPeerOnly(offer) ==
    [manifest |-> offer.manifest, installDate |-> now, enabled |-> TRUE,
     peerIds |-> <<offer.peerIds[1]>>, lastSuccessfulPeerId |-> NoPeer]

\* The InstalledExtension built by installExtension (lines 274-279)
newInstalledExtension(offer) ==
    [manifest |-> offer.manifest, installDate |-> now, enabled |-> TRUE,
     peerIds |-> offer.peerIds, lastSuccessfulPeerId |-> NoPeer]

\* fault: the listeners are notified before the offer is deleted
installExtensionCommit_NotifyBeforeDelete(st, extensionId) ==
    LET i2 == MapSet(st.installed, extensionId,
                     newInstalledExtension(MapGet(st.offers, extensionId)))
        o2 == MapDelete(st.offers, extensionId)
    IN [st EXCEPT !.installed = i2,
                  !.storage = saveInstalledToStorage(i2, st.storage),
                  !.offers = o2,
                  !.notes = notifyListeners(st.notes, st.offers, i2)]

\* installExtension once both checks have passed (lines 274-288): set, save,
\* delete the offer, and only then notify.
installExtensionCommit(st, extensionId) ==
    LET i2 == MapSet(st.installed, extensionId,
                     newInstalledExtension(MapGet(st.offers, extensionId)))
        o2 == MapDelete(st.offers, extensionId)
    IN [st EXCEPT !.installed = i2,
                  !.storage = saveInstalledToStorage(i2, st.storage),
                  !.offers = o2,
                  !.notes = notifyListeners(st.notes, o2, i2)]

\* fault: a failed write makes the installation fail
installExtension_FailsWhenSaveFails(extensionId) ==
    LET ok == MapHas(offers, extensionId) /\ ~isInstalled(installed, extensionId)
                 /\ ~storageFails
        st == IF ok THEN installExtensionCommit(Cur, extensionId) ELSE Cur
    IN /\ offers' = st.offers
       /\ installed' = st.installed
       /\ storage' = st.storage
       /\ notice' = Notice("installExtension", extensionId,
                           IF ok THEN "true" ELSE "false", st.notes, << >>)
       /\ UNCHANGED <<listeners, storageFails, fetches, calls, now, psVars>>

\* ExtensionManager.installExtension
installExtension(extensionId) ==
    LET ok == MapHas(offers, extensionId) /\ ~isInstalled(installed, extensionId)
        st == IF ok THEN installExtensionCommit(Cur, extensionId) ELSE Cur
    IN /\ offers' = st.offers
       /\ installed' = st.installed
       /\ storage' = st.storage
       /\ notice' = Notice("installExtension", extensionId,
                           IF ok THEN "true" ELSE "false", st.notes, << >>)
       /\ UNCHANGED <<listeners, storageFails, fetches, calls, now, psVars>>

\* fault: the listeners are notified although nothing was uninstalled
uninstallExtension_NotifyAlways(extensionId) ==
    LET ok == isInstalled(installed, extensionId)
        i2 == MapDelete(installed, extensionId)
    IN /\ installed' = IF ok THEN i2 ELSE installed
       /\ storage' = IF ok THEN saveInstalledToStorage(i2, storage) ELSE storage
       /\ notice' = Notice("uninstallExtension", extensionId,
                           IF ok THEN "true" ELSE "false",
                           notifyListeners(<< >>, offers, i2), << >>)
       /\ UNCHANGED <<offers, listeners, storageFails, fetches, calls, now, psVars>>

\* ExtensionManager.uninstallExtension
uninstallExtension(extensionId) ==
    LET ok == isInstalled(installed, extensionId)
        i2 == MapDelete(installed, extensionId)
    IN /\ installed' = IF ok THEN i2 ELSE installed
       /\ storage' = IF ok THEN saveInstalledToStorage(i2, storage) ELSE storage
       /\ notice' = Notice("uninstallExtension", extensionId,
                           IF ok THEN "true" ELSE "false",
                           IF ok THEN notifyListeners(<< >>, offers, i2) ELSE << >>,
                           << >>)
       /\ UNCHANGED <<offers, listeners, storageFails, fetches, calls, now, psVars>>

\* ExtensionManager.setExtensionEnabled
setExtensionEnabled(extensionId, enabled) ==
    LET ok == MapHas(installed, extensionId)
        i2 == [installed EXCEPT !.val[extensionId].enabled = enabled]
    IN /\ installed' = IF ok THEN i2 ELSE installed
       /\ storage' = IF ok THEN saveInstalledToStorage(i2, storage) ELSE storage
       /\ notice' = Notice("setExtensionEnabled", extensionId,
                           IF ok THEN "true" ELSE "false",
                           IF ok THEN notifyListeners(<< >>, offers, i2) ELSE << >>,
                           << >>)
       /\ UNCHANGED <<offers, listeners, storageFails, fetches, calls, now, psVars>>

\* ExtensionManager.dismissOffer
dismissOffer(extensionId) ==
    LET o2 == MapDelete(offers, extensionId)
    IN /\ offers' = o2
       /\ notice' = Notice("dismissOffer", extensionId, "void",
                           notifyListeners(<< >>, o2, installed), << >>)
       /\ UNCHANGED <<installed, listeners, storage, storageFails, fetches, calls, now, psVars>>

\* removePeer on the installation (lines 362-369)
removePeerInstalled(i, extensionId, peerId) ==
    IF MapHas(i, extensionId)
    THEN [i EXCEPT !.val[extensionId].peerIds = filterNot(@, peerId),
                   !.val[extensionId].lastSuccessfulPeerId =
                       IF @ = peerId THEN NoPeer ELSE @]
    ELSE i

\* fault: an offer whose last peer was removed is kept
removePeerOffer_KeepEmpty(o, extensionId, peerId) ==
    IF MapHas(o, extensionId)
    THEN [o EXCEPT !.val[extensionId].peerIds = filterNot(@, peerId)]
    ELSE o

\* removePeer on the offer (lines 371-376)
removePeerOffer(o, extensionId, peerId) ==
    IF MapHas(o, extensionId)
    THEN LET left == filterNot(MapGet(o, extensionId).peerIds, peerId)
         IN IF Len(left) = 0 THEN MapDelete(o, extensionId)
            ELSE [o EXCEPT !.val[extensionId].peerIds = left]
    ELSE o

\* ExtensionManager.removePeer
removePeer(extensionId, peerId) ==
    LET i2 == removePeerInstalled(installed, extensionId, peerId)
        o2 == removePeerOffer(offers, extensionId, peerId)
    IN /\ installed' = i2
       /\ storage' = IF MapHas(installed, extensionId)
                     THEN saveInstalledToStorage(i2, storage) ELSE storage
       /\ offers' = o2
       /\ notice' = Notice("removePeer", extensionId, "void",
                           IF MapHas(offers, extensionId)
                           THEN notifyListeners(<< >>, o2, i2) ELSE << >>,
                           <<peerId>>)
       /\ UNCHANGED <<listeners, storageFails, fetches, calls, now, psVars>>

\* A peer disconnects (libp2p dispatches connection:close and
\* peer:disconnect).  ExtensionManager.start registers a listener for
\* peer:identify only, and nothing in the application calls removePeer: no
\* code of the manager runs.
peerDisconnect(peerId) ==
    /\ notice' = Notice("peerDisconnect", "", "void", << >>, <<peerId>>)
    /\ UNCHANGED <<offers, installed, listeners, storage, storageFails, fetches, calls,
                   now, psVars>>

\* ExtensionManager.onChange
onChange(listener) ==
    /\ listeners' = listeners \cup {listener}
    /\ notice' = Notice("onChange", "", "void", << >>, << >>)
    /\ UNCHANGED <<offers, installed, storage, storageFails, fetches, calls, now, psVars>>

\* the function onChange returned
unsubscribe(listener) ==
    /\ listeners' = listeners \ {listener}
    /\ notice' = Notice("unsubscribe", "", "void", << >>, << >>)
    /\ UNCHANGED <<offers, installed, storage, storageFails, fetches, calls, now, psVars>>

\* fault: the stored order is returned, the last successful peer not moved up
getExtensionPeers_StoredOrder(i, extensionId) ==
    IF ~MapHas(i, extensionId) THEN << >> ELSE MapGet(i, extensionId).peerIds

\* ExtensionManager.getExtensionPeers
getExtensionPeers(i, extensionId) ==
    IF ~MapHas(i, extensionId) THEN << >>
    ELSE LET peerIds == MapGet(i, extensionId).peerIds
             lastSuccessfulPeerId == MapGet(i, extensionId).lastSuccessfulPeerId
         IN IF lastSuccessfulPeerId # NoPeer /\ includes(peerIds, lastSuccessfulPeerId)
            THEN <<lastSuccessfulPeerId>> \o filterNot(peerIds, lastSuccessfulPeerId)
            ELSE peerIds

\* fault: the record is written whether or not the extension is installed
markPeerSuccess_NoInstalledTest(i, extensionId, peerId) ==
    MapSet(i, extensionId,
           IF MapHas(i, extensionId)
           THEN [MapGet(i, extensionId) EXCEPT !.lastSuccessfulPeerId = peerId]
           ELSE [manifest |-> [id |-> extensionId, version |-> ""], installDate |-> now,
                 enabled |-> FALSE, peerIds |-> << >>, lastSuccessfulPeerId |-> peerId])

\* fault: the successful peer is also moved to the front of the stored list
markPeerSuccess_MoveToFront(i, extensionId, peerId) ==
    IF MapHas(i, extensionId)
    THEN [i EXCEPT !.val[extensionId].lastSuccessfulPeerId = peerId,
                   !.val[extensionId].peerIds = <<peerId>> \o filterNot(@, peerId)]
    ELSE i

\* ExtensionManager.markPeerSuccess
markPeerSuccess(i, extensionId, peerId) ==
    IF MapHas(i, extensionId)
    THEN [i EXCEPT !.val[extensionId].lastSuccessfulPeerId = peerId]
    ELSE i

\* ------------------------------------------- direct-stream ExtensionProtocol
\* ExtensionProtocol.executeOnPeer: what one attempt yields.  The response
\* counts when its payload tag is 'command' or absent, it carries a command
\* result and that result's requestId is the one just sent; a success whose
\* data is not JSON throws in JSON.parse like any other failure.
executeOnPeer(response) ==
    IF response.arrived
       /\ (response.payload = "command" \/ response.payload = "")
       /\ response.hasCommand
       /\ response.requestIdMatches
       /\ response.success
       /\ response.dataParses
    THEN "returned"
    ELSE "thrown"

\* The message of the error a failed exchange throws: the abort of the
\* deadline signal or a stream error, the remote's refusal (its error text or
\* 'Command failed'), the SyntaxError of JSON.parse, or 'Invalid response'.
executeOnPeerError(response) ==
    IF ~response.arrived THEN "aborted"
    ELSE IF (response.payload = "command" \/ response.payload = "")
            /\ response.hasCommand /\ response.requestIdMatches
    THEN IF response.success THEN "SyntaxError" ELSE "Command failed"
    ELSE "Invalid response"

\* Which request the response read from the stream belongs to
answerOf(response) ==
    IF ~response.arrived THEN "none"
    ELSE IF response.hasCommand /\ response.requestIdMatches THEN "matching"
    ELSE "other"

\* fault: only the last failure is kept
pushError_LastOnly(errors, peerId, message) ==
    <<[peerId |-> peerId, message |-> message]>>

\* errors.push(`${peerId.slice(-8)}: ${error.message}`)
pushError(errors, peerId, message) ==
    Append(errors, [peerId |-> peerId, message |-> message])

\* fault: zero peers are reported as 'not installed'
executeCommand_OneError(extensionId) ==
    LET peerIds == getExtensionPeers(installed, extensionId)
    IN /\ ~MapHas(installed, extensionId) \/ Len(peerIds) = 0
       /\ notice' = Notice("executeCommand", extensionId, "notInstalled", << >>, << >>)
       /\ UNCHANGED <<offers, installed, listeners, storage, storageFails, fetches,
                      calls, now, psVars>>

\* fault: a disabled extension is treated as not installed
executeCommandStart_DisabledRefused(i, extensionId) ==
    LET peerIds == getExtensionPeers(i, extensionId)
    IN IF ~MapHas(i, extensionId) \/ ~MapGet(i, extensionId).enabled
       THEN [result |-> "notInstalled", peerIds |-> << >>, protocol |-> << >>]
       ELSE IF Len(peerIds) = 0
       THEN [result |-> "noPeers", peerIds |-> << >>, protocol |-> << >>]
       ELSE [result |-> "dialed", peerIds |-> peerIds,
             protocol |-> getExtensionProtocol(extensionId,
                              MapGet(i, extensionId).manifest.version)]

\* What executeCommand decides before its loop (lines 218-231): one of the
\* two errors, or the candidates and the protocol to dial.
executeCommandStart(i, extensionId) ==
    LET peerIds == getExtensionPeers(i, extensionId)
    IN IF ~MapHas(i, extensionId)
       THEN [result |-> "notInstalled", peerIds |-> << >>, protocol |-> << >>]
       ELSE IF Len(peerIds) = 0
       THEN [result |-> "noPeers", peerIds |-> << >>, protocol |-> << >>]
       ELSE [result |-> "dialed", peerIds |-> peerIds,
             protocol |-> getExtensionProtocol(extensionId,
                              MapGet(i, extensionId).manifest.version)]

\* ExtensionProtocol.executeCommand up to its first await (lines 219-238): the
\* call suspends in the dialProtocol of executeOnPeer for the first candidate.
executeCommand(extensionId) ==
    LET start == executeCommandStart(installed, extensionId)
        c == [extensionId |-> extensionId, protocol |-> start.protocol,
              peerIds |-> start.peerIds, i |-> 1, errors |-> << >>, phase |-> "dial",
              attempts |-> << >>]
    IN /\ IF start.result # "dialed"
          THEN /\ notice' = Notice("executeCommand", extensionId, start.result,
                                   << >>, << >>)
               /\ calls' = calls
          ELSE /\ BagCardinality(calls) < MaxCalls
               /\ calls' = calls (+) SetToBag({c})
               /\ notice' = Notice("executeCommand", extensionId, "dialed",
                                   << >>, <<start.peerIds[1]>>)
       /\ UNCHANGED <<offers, installed, listeners, storage, storageFails, fetches, now, psVars>>

\* fault: the first failure ends the call
attemptFailed_Throws(c, attempts, message) ==
    /\ calls' = calls (-) SetToBag({c})
    /\ notice' = [Notice("executeCommand", c.extensionId, "allFailed", << >>,
                         pushError(c.errors, c.peerIds[c.i], message))
                    EXCEPT !.attempts = attempts]
    /\ UNCHANGED <<installed, storage>>

\* The catch block of executeCommand (lines 243-247) and what follows it: the
\* failure of the current candidate is recorded, the next candidate is dialed,
\* or, after the last one, the aggregate error is thrown (line 250).
\* attempts are the streams of the call, the one of this candidate released.
attemptFailed(c, attempts, message) ==
    LET errors2 == pushError(c.errors, c.peerIds[c.i], message)
        rest == calls (-) SetToBag({c})
    IN /\ IF c.i < Len(c.peerIds)
          THEN /\ calls' = rest (+) SetToBag({[c EXCEPT !.i = c.i + 1,
                                                        !.errors = errors2,
                                                        !.phase = "dial",
                                                        !.attempts = attempts]})
               /\ notice' = [Notice("executeCommand", c.extensionId, "dialed",
                                    << >>, <<c.peerIds[c.i + 1]>>)
                               EXCEPT !.attempts = attempts]
          ELSE /\ calls' = rest
               /\ notice' = [Notice("executeCommand", c.extensionId, "allFailed",
                                    << >>, errors2)
                               EXCEPT !.attempts = attempts]
       /\ UNCHANGED <<installed, storage>>

\* executeOnPeer, await libp2p.dialProtocol(pId, protocol) (line 268): the
\* stream is opened or the dial throws.  The call passes no signal.
dialProtocolDone(c, opened) ==
    LET attempts2 == Append(c.attempts, Attempt(c.peerIds[c.i], "open", "none", FALSE))
    IN /\ BagIn(c, calls)
       /\ c.phase = "dial"
       /\ IF opened
          THEN /\ calls' = (calls (-) SetToBag({c}))
                              (+) SetToBag({[c EXCEPT !.phase = "stream",
                                                      !.attempts = attempts2]})
               /\ notice' = [Notice("executeCommand", c.extensionId, "opened",
                                    << >>, <<c.peerIds[c.i]>>)
                               EXCEPT !.attempts = attempts2]
               /\ UNCHANGED <<installed, storage>>
          ELSE attemptFailed(c, c.attempts, "dial failed")
       /\ UNCHANGED <<offers, listeners, storageFails, fetches, now, psVars>>

\* ExtensionProtocol.executeCommand from the end of the exchange on the stream
\* (lines 238-253): the write and the read under AbortSignal.timeout(
\* COMMAND_TIMEOUT) have resolved or thrown, and the finally block of
\* executeOnPeer has released the stream.  On success the notice lists the
\* attempts of the call in order, the last being the one whose response is
\* returned.
executeOnPeerDone(c, response) ==
    LET peerId == c.peerIds[c.i]
        got == executeOnPeer(response)
        i2 == markPeerSuccess(installed, c.extensionId, peerId)
        attempts2 == [c.attempts EXCEPT ![Len(c.attempts)] =
                         Attempt(peerId, releaseStream(response.closes),
                                 answerOf(response), response.executed)]
    IN /\ BagIn(c, calls)
       /\ c.phase = "stream"
       /\ IF got = "returned"
          THEN /\ installed' = i2
               /\ storage' = IF MapHas(installed, c.extensionId)
                             THEN saveInstalledToStorage(i2, storage) ELSE storage
               /\ calls' = calls (-) SetToBag({c})
               /\ notice' = [Notice("executeCommand", c.extensionId, "success",
                                    << >>, Append(c.errors, [peerId |-> peerId,
                                                             message |-> ""]))
                               EXCEPT !.attempts = attempts2]
          ELSE attemptFailed(c, attempts2, executeOnPeerError(response))
       /\ UNCHANGED <<offers, listeners, storageFails, fetches, now, psVars>>

\* ------------------------------------------- pubsub command protocol
\* ExtensionProtocol over pubsub.  A topic is modelled by its three parts:
\* `uc-ext-${extensionId}-commands` is <<"uc-ext-", extensionId, "-commands">>.
getExtensionCommandTopic(extensionId) == <<"uc-ext-", extensionId, "-commands">>

\* everything the pubsub protocol leaves alone
mgrVars == <<offers, installed, listeners, storage, storageFails, fetches, calls, now,
             psOffers, psInstalled, parse, running, psRunning, dmPeers, advertised>>

\* no entry of pendingRequests
NoRequest == 0

\* fault: any pending request takes the response
pendingLookup_Any(pending, requestId) ==
    IF pending = {} THEN NoRequest ELSE CHOOSE r \in pending : TRUE

\* this.pendingRequests.get(response.requestId)
pendingLookup(pending, requestId) ==
    IF requestId \in pending THEN requestId ELSE NoRequest

\* The promise of request requestId is resolved or rejected: a call that is
\* awaiting it returns or throws, a call still awaiting publish keeps the
\* settled promise for later.
settle(cs, requestId, outcome) ==
    {IF c.requestId = requestId THEN [c EXCEPT !.settled = outcome] ELSE c :
        c \in {d \in cs : d.requestId # requestId \/ d.phase = "publish"}}

\* ExtensionProtocol.executeCommand (pubsub) up to await publish: subscribe
\* when the topic is new (a failure is rethrown), draw the request id, arm
\* the timer and register the pending request.
cmdExecuteCommand(extensionId, subscribes, requestId) ==
    LET topic == getExtensionCommandTopic(extensionId)
    IN /\ IF topic \notin subscribedTopics /\ ~subscribes
          THEN /\ notice' = Notice("cmdExecuteCommand", extensionId, "thrown", << >>,
                                   <<NoRequest>>)
               /\ UNCHANGED <<pendingRequests, subscribedTopics, requestIds, psCalls,
                              timers>>
          ELSE /\ requestId \notin requestIds
               /\ subscribedTopics' = subscribedTopics \cup {topic}
               /\ requestIds' = requestIds \cup {requestId}
               /\ pendingRequests' = pendingRequests \cup {requestId}
               /\ timers' = timers \cup {requestId}
               /\ psCalls' = psCalls \cup {[requestId |-> requestId,
                                             extensionId |-> extensionId,
                                             phase |-> "publish", settled |-> "no"]}
               /\ notice' = Notice("cmdExecuteCommand", extensionId, "publishing", << >>,
                                   <<requestId>>)
       /\ UNCHANGED mgrVars

\* ExtensionProtocol.executeCommand (pubsub) from await publish on: the
\* promise is returned, or the pending request is dropped and an error thrown
cmdPublishDone(c, ok) ==
    /\ c \in psCalls
    /\ c.phase = "publish"
    /\ IF ok
       THEN /\ psCalls' = IF c.settled = "no"
                          THEN (psCalls \ {c}) \cup {[c EXCEPT !.phase = "wait"]}
                          ELSE psCalls \ {c}
            /\ notice' = Notice("cmdPublishDone", c.extensionId,
                                IF c.settled = "no" THEN "waiting" ELSE c.settled,
                                << >>, <<c.requestId>>)
            /\ UNCHANGED pendingRequests
       ELSE /\ pendingRequests' = pendingRequests \ {c.requestId}
            /\ psCalls' = psCalls \ {c}
            /\ notice' = Notice("cmdPublishDone", c.extensionId, "thrown", << >>,
                                <<c.requestId>>)
    /\ UNCHANGED <<subscribedTopics, requestIds, timers>>
    /\ UNCHANGED mgrVars

\* ExtensionProtocol.handleCommandResponse: a response whose requestId has no
\* pending request is dropped; otherwise the request stops pending and its
\* promise is resolved or rejected.
handleCommandResponse(response) ==
    LET pending == pendingLookup(pendingRequests, response.requestId)
        outcome == IF response.success THEN "resolved" ELSE "rejected"
    IN IF pending = NoRequest
       THEN /\ notice' = Notice("cmdHandleMessage", "", "ignored", << >>,
                                <<response.requestId>>)
            /\ UNCHANGED <<pendingRequests, psCalls, timers>>
       ELSE /\ timers' = timers \ {pending}
            /\ pendingRequests' = pendingRequests \ {response.requestId}
            /\ psCalls' = settle(psCalls, pending, outcome)
            /\ notice' = Notice("cmdHandleMessage", "", outcome, << >>,
                                <<response.requestId>>)

\* ExtensionProtocol.handleMessage (pubsub): only signed messages on a topic
\* that starts with 'uc-ext-' and ends with '-commands', whose text parses
\* and whose type is 'response', reach handleCommandResponse
cmdHandleMessage(evt) ==
    /\ IF /\ evt.topic[1] = "uc-ext-"
          /\ evt.topic[Len(evt.topic)] = "-commands"
          /\ evt.type = "signed"
          /\ evt.parses
          /\ evt.message.type = "response"
       THEN handleCommandResponse(evt.message)
       ELSE /\ notice' = Notice("cmdHandleMessage", "", "dropped", << >>, <<NoRequest>>)
            /\ UNCHANGED <<pendingRequests, psCalls, timers>>
    /\ UNCHANGED <<subscribedTopics, requestIds>>
    /\ UNCHANGED mgrVars

\* The timer armed by executeCommand (pubsub) fires: the request stops
\* pending and its promise is rejected with 'Command timeout'.  A response
\* and stop() clear the timer; a failed publish does not, and the timer then
\* fires on a promise no one holds.
cmdTimeout(requestId) ==
    /\ requestId \in timers
    /\ timers' = timers \ {requestId}
    /\ pendingRequests' = pendingRequests \ {requestId}
    /\ psCalls' = settle(psCalls, requestId, "rejected")
    /\ notice' = Notice("cmdTimeout", "", "rejected", << >>, <<requestId>>)
    /\ UNCHANGED <<subscribedTopics, requestIds>>
    /\ UNCHANGED mgrVars

\* ExtensionProtocol.stop (pubsub): every pending request is rejected with
\* 'Protocol stopped' and the map is cleared.  removeEventListener is given
\* a new bound function, so handleMessage stays registered.
cmdStop ==
    /\ timers' = timers \ pendingRequests
    /\ pendingRequests' = {}
    /\ psCalls' = {IF c.requestId \in pendingRequests
                    THEN [c EXCEPT !.settled = "rejected"] ELSE c :
                     c \in {d \in psCalls : d.phase = "publish"
                                               \/ d.requestId \notin pendingRequests}}
    /\ notice' = Notice("cmdStop", "", "void", << >>, <<NoRequest>>)
    /\ UNCHANGED <<subscribedTopics, requestIds>>
    /\ UNCHANGED mgrVars

\* --------------------------------------------------- pubsub-based registry
\* The pubsub ExtensionManager keeps one publisher per offer and no peer list;
\* in the specifications that run it, listeners, storage and notice are its
\* own.  Its methods carry the prefix ps where the identify-based manager has
\* one of the same name.

\* JSON.stringify(Array.from(installed.entries())) of the pubsub records
psJSONstringify(i) ==
    [n \in 1..Len(i.keys) |-> <<i.keys[n], i.val[i.keys[n]]>>]

\* ExtensionManager.saveInstalledToStorage (pubsub)
psSaveInstalledToStorage(i, stor) ==
    IF storageFails THEN stor ELSE [present |-> TRUE, valid |-> TRUE, data |-> psJSONstringify(i)]

\* Array.from(offers.entries()).sort((a, b) => a[1].timestamp - b[1].timestamp):
\* a stable sort, oldest first; e goes behind every entry that is not newer.
RECURSIVE sortOldestFirst(_)
sortOldestFirst(arr) ==
    IF arr = << >> THEN << >>
    ELSE LET done == sortOldestFirst(SubSeq(arr, 1, Len(arr) - 1))
             e == arr[Len(arr)]
             ahead == SelectSeq(done, LAMBDA a : a[2].timestamp <= e[2].timestamp)
             behind == SelectSeq(done, LAMBDA a : a[2].timestamp > e[2].timestamp)
         IN ahead \o <<e>> \o behind

\* fault: the newest offer is taken for the oldest
oldestKey_Newest(o) == sortOldestFirst(MapEntries(o))[MapSize(o)][1]

\* the key handleExtensionOffer evicts (lines 113-114)
oldestKey(o) == sortOldestFirst(MapEntries(o))[1][1]

\* the cap of handleExtensionOffer (lines 110-116)
limitOffers(o) ==
    IF MapSize(o) > MAX_OFFERS THEN MapDelete(o, oldestKey(o)) ELSE o

\* ExtensionManager.handleExtensionOffer (pubsub): the offers map it leaves
handleExtensionOffer(o, i, message, publisherPeerId) ==
    IF ~isValidManifest(message.manifest) THEN o
    ELSE IF isInstalled(i, message.manifest.id) THEN o
    ELSE limitOffers(MapSet(o, message.manifest.id,
                            [manifest |-> [id |-> message.manifest.id,
                                           version |-> message.manifest.version],
                             timestamp |-> now,
                             publisherPeerId |-> publisherPeerId]))

\* ExtensionManager.handleMessage (pubsub): a message event of the pubsub
\* service.  Only signed messages on the discovery topic whose text parses
\* and whose type is 'offer' reach handleExtensionOffer; the listeners are
\* notified when that call gets past its two early returns.
handleMessage(evt) ==
    LET handled == /\ evt.topic = EXTENSION_DISCOVERY_TOPIC
                   /\ evt.type = "signed"
                   /\ evt.parses
                   /\ evt.message.type = "offer"
        recorded == /\ handled
                    /\ isValidManifest(evt.message.manifest)
                    /\ ~isInstalled(psInstalled, evt.message.manifest.id)
        o2 == IF handled
              THEN handleExtensionOffer(psOffers, psInstalled, evt.message, evt.from)
              ELSE psOffers
    IN /\ psRunning # "new"
       /\ psOffers' = o2
       /\ notice' = Notice("handleMessage",
                           IF recorded THEN evt.message.manifest.id ELSE "",
                           IF recorded THEN "offer" ELSE "none",
                           IF recorded THEN notifyListeners(<< >>, o2, psInstalled)
                           ELSE << >>,
                           <<evt.from>>)
       /\ UNCHANGED <<psInstalled, listeners, storage, storageFails, now, idVars>>

\* ExtensionManager.installExtension (pubsub)
psInstallExtension(extensionId) ==
    LET ok == MapHas(psOffers, extensionId) /\ ~isInstalled(psInstalled, extensionId)
        i2 == MapSet(psInstalled, extensionId,
                     [manifest |-> MapGet(psOffers, extensionId).manifest,
                      installDate |-> now, enabled |-> TRUE])
        o2 == MapDelete(psOffers, extensionId)
    IN /\ psInstalled' = IF ok THEN i2 ELSE psInstalled
       /\ storage' = IF ok THEN psSaveInstalledToStorage(i2, storage) ELSE storage
       /\ psOffers' = IF ok THEN o2 ELSE psOffers
       /\ notice' = Notice("installExtension", extensionId,
                           IF ok THEN "true" ELSE "false",
                           IF ok THEN notifyListeners(<< >>, o2, i2) ELSE << >>,
                           << >>)
       /\ UNCHANGED <<listeners, storageFails, now, idVars>>

\* ExtensionManager.uninstallExtension (pubsub)
psUninstallExtension(extensionId) ==
    LET ok == isInstalled(psInstalled, extensionId)
        i2 == MapDelete(psInstalled, extensionId)
    IN /\ psInstalled' = IF ok THEN i2 ELSE psInstalled
       /\ storage' = IF ok THEN psSaveInstalledToStorage(i2, storage) ELSE storage
       /\ notice' = Notice("uninstallExtension", extensionId,
                           IF ok THEN "true" ELSE "false",
                           IF ok THEN notifyListeners(<< >>, psOffers, i2) ELSE << >>,
                           << >>)
       /\ UNCHANGED <<psOffers, listeners, storageFails, now, idVars>>

\* ExtensionManager.dismissOffer (pubsub)
psDismissOffer(extensionId) ==
    LET o2 == MapDelete(psOffers, extensionId)
    IN /\ psOffers' = o2
       /\ notice' = Notice("dismissOffer", extensionId, "void",
                           notifyListeners(<< >>, o2, psInstalled), << >>)
       /\ UNCHANGED <<psInstalled, listeners, storage, storageFails, now, idVars>>

\* ----------------------------------------------------------------- time
\* Date.now() moves on between two handler runs
Tick ==
    /\ now < MaxTime
    /\ now' = now + 1
    /\ notice' = Notice("tick", "", "void", << >>, << >>)
    /\ UNCHANGED <<offers, installed, listeners, storage, storageFails, fetches, calls, psVars>>

\* ------------------------------------------------------------- inputs
\* Capability strings a peer may advertise: the extensions' protocols, one
\* with a segment missing, and one of another subsystem.
AdvertisedProtocols(ids) ==
    {getExtensionProtocol(x, v) : x \in ids, v \in Versions}
    \cup {<<"uc", "extension", "sheet">>, <<"ipfs", "id", "1.0.0">>}

ProtocolListsOf(ids) == UNION {[1..n -> AdvertisedProtocols(ids)] : n \in 0..MaxProtocols}

ProtocolLists == ProtocolListsOf(ExtIds)

\* What a manifest fetch can end in: the dial fails (opened is FALSE), no
\* answer arrives in time, a tagged or untagged manifest, a response of the
\* other kind, an empty one.  closes: stream.close() resolves.
ManifestResponses ==
    {[opened |-> o, closes |-> cl, arrived |-> FALSE, payload |-> "",
      hasManifest |-> FALSE, manifest |-> [id |-> "", version |-> ""]] :
        o \in BOOLEAN, cl \in BOOLEAN}
    \cup {[opened |-> TRUE, closes |-> cl, arrived |-> TRUE, payload |-> tag,
           hasManifest |-> TRUE, manifest |-> m] :
            cl \in BOOLEAN, tag \in {"manifest", ""}, m \in Manifests}
    \cup {[opened |-> TRUE, closes |-> cl, arrived |-> TRUE, payload |-> tag,
           hasManifest |-> FALSE, manifest |-> [id |-> "", version |-> ""]] :
            cl \in BOOLEAN, tag \in {"manifest", "command"}}

\* What a command exchange on an open stream can end in: nothing arrives in
\* time (the remote peer may or may not have carried out the request it
\* received), or a command result arrives, for this request or for another
\* one, reporting success or an error.  closes: stream.close() resolves.
CommandResponses ==
    {[closes |-> cl, executed |-> ex, arrived |-> FALSE, payload |-> "",
      hasCommand |-> FALSE, requestIdMatches |-> FALSE, success |-> FALSE,
      dataParses |-> FALSE] : cl \in BOOLEAN, ex \in BOOLEAN}
    \cup {[closes |-> cl, executed |-> ok, arrived |-> TRUE, payload |-> "command",
           hasCommand |-> TRUE, requestIdMatches |-> m, success |-> ok,
           dataParses |-> TRUE] :
            cl \in BOOLEAN, m \in BOOLEAN, ok \in BOOLEAN}

\* The exchanges whose stream closes in time and whose request was carried
\* out exactly when success is reported
CommandResponsesBrief ==
    {response \in CommandResponses :
        response.closes /\ (response.executed <=> (response.arrived /\ response.success))}

\* the manifest exchanges on a stream that was opened and closes in time
ManifestResponsesBrief ==
    {response \in ManifestResponses : response.closes /\ response.opened}

\* Blobs a previous session can have left under STORAGE_KEY: none, or one
\* installation written before peerIds existed.
InitStorages ==
    {[present |-> FALSE, valid |-> TRUE, data |-> << >>],
     [present |-> TRUE, valid |-> TRUE,
      data |-> << <<"sheet",
                   [manifest |-> [id |-> "sheet", version |-> "1.0.0"],
                    installDate |-> 0, enabled |-> TRUE, hasPeerIds |-> FALSE,
                    peerIds |-> << >>, lastSuccessfulPeerId |-> NoPeer]>> >>]}

\* ------------------------------------------------------- specification
\* The registry with its listeners and the clock: discovery, the user's
\* operations, subscriptions.  Command execution runs in SpecExec.
\* new ExtensionManager(libp2p): installed is loaded from storage, no offers
Init ==
    /\ storage \in InitStorages
    /\ installed = loadInstalledFromStorage(storage)
    /\ offers = EmptyMap
    /\ listeners = {}
    /\ storageFails = FALSE
    /\ fetches = EmptyBag
    /\ calls = EmptyBag
    /\ now = 0
    /\ notice = Notice("constructor", "", "void", << >>, << >>)
    /\ psOffers = EmptyMap
    /\ psInstalled = EmptyMap
    /\ steps = 0
    /\ pendingRequests = {}
    /\ subscribedTopics = {}
    /\ requestIds = {}
    /\ psCalls = {}
    /\ timers = {}
    /\ running = "started"
    /\ psRunning = "started"
    /\ dmPeers = {}
    /\ advertised = [peerId \in Peers |-> {}]
    /\ parse = NoParse

Next ==
    \/ \E peerId \in Peers, protocols \in ProtocolLists :
          handleIdentify(peerId, protocols) /\ UNCHANGED steps
    \/ \E f \in BagToSet(fetches), response \in ManifestResponsesBrief :
          fetchManifestDone(f, response) /\ UNCHANGED steps
    \/ \E x \in ExtIds : installExtension(x) /\ UNCHANGED steps
    \/ \E x \in ExtIds : uninstallExtension(x) /\ UNCHANGED steps
    \/ \E x \in ExtIds, enabled \in BOOLEAN :
          setExtensionEnabled(x, enabled) /\ UNCHANGED steps
    \/ \E x \in ExtIds : dismissOffer(x) /\ UNCHANGED steps
    \/ \E x \in ExtIds, peerId \in Peers : removePeer(x, peerId) /\ UNCHANGED steps
    \/ \E peerId \in Peers : peerDisconnect(peerId) /\ UNCHANGED steps
    \/ \E listener \in ListenerIds : onChange(listener) /\ UNCHANGED steps
    \/ \E listener \in ListenerIds : unsubscribe(listener) /\ UNCHANGED steps
    \/ Tick /\ UNCHANGED steps

Spec == Init /\ [][Next]_vars

\* ------------------------------------------ specifications around the cap
\* MAX_OFFERS + 1 extension ids, and the three of them the user acts on
CapIds == <<"x01", "x02", "x03", "x04", "x05", "x06", "x07", "x08", "x09", "x10", "x11">>
CapIdSet == {CapIds[n] : n \in 1..Len(CapIds)}
CapUserIds == {"x01", "x02", "x11"}

\* one handler run of a step-bounded specification
Bounded == steps < MaxSteps /\ steps' = steps + 1

\* The offers after the first k ids were offered by pA within one millisecond
CapOffers(k) ==
    MapFrom([n \in 1..k |->
               <<CapIds[n], [manifest |-> [id |-> CapIds[n], version |-> "1.0.0"],
                             timestamp |-> 0, peerIds |-> <<"pA">>]>>])

psCapOffers(k) ==
    MapFrom([n \in 1..k |->
               <<CapIds[n], [manifest |-> [id |-> CapIds[n], version |-> "1.0.0"],
                             timestamp |-> 0, publisherPeerId |-> "pA"]>>])

CapFill == {0, MAX_OFFERS - 1, MAX_OFFERS}

\* Answers to the manifest request of the suspended call f: no answer, or a
\* manifest carrying the requested id or the id of another extension.
CapManifestResponses(f) ==
    {[opened |-> TRUE, closes |-> TRUE, arrived |-> FALSE, payload |-> "",
      hasManifest |-> FALSE, manifest |-> [id |-> "", version |-> ""]]}
    \cup {[opened |-> TRUE, closes |-> TRUE, arrived |-> TRUE, payload |-> "manifest",
           hasManifest |-> TRUE,
           manifest |-> [id |-> id, version |-> "1.0.0"]] :
            id \in {f.extensionId, "x01"}}

\* Message events of the pubsub service: an offer for each id, and one each
\* of the kinds handleMessage and handleExtensionOffer drop.
OfferEvent(id, topic, type, parses, msgType, isObject, typesOk) ==
    [topic |-> topic, type |-> type, parses |-> parses, from |-> "pA",
     message |-> [type |-> msgType,
                  manifest |-> [isObject |-> isObject, typesOk |-> typesOk,
                                id |-> id, version |-> "1.0.0"]]]

PubsubEvents ==
    {OfferEvent(id, EXTENSION_DISCOVERY_TOPIC, "signed", TRUE, "offer", TRUE, TRUE) :
        id \in CapIdSet}
    \cup {OfferEvent("x11", "universal-connectivity", "signed", TRUE, "offer", TRUE, TRUE),
          OfferEvent("x11", EXTENSION_DISCOVERY_TOPIC, "unsigned", TRUE, "offer", TRUE, TRUE),
          OfferEvent("x11", EXTENSION_DISCOVERY_TOPIC, "signed", FALSE, "offer", TRUE, TRUE),
          OfferEvent("x11", EXTENSION_DISCOVERY_TOPIC, "signed", TRUE, "other", TRUE, TRUE),
          OfferEvent("x11", EXTENSION_DISCOVERY_TOPIC, "signed", TRUE, "offer", FALSE, FALSE),
          OfferEvent("x11", EXTENSION_DISCOVERY_TOPIC, "signed", TRUE, "offer", TRUE, FALSE)}

InitCommon ==
    /\ storage = [present |-> FALSE, valid |-> TRUE, data |-> << >>]
    /\ listeners = ListenerIds
    /\ storageFails = FALSE
    /\ fetches = EmptyBag
    /\ calls = EmptyBag
    /\ now = 0
    /\ notice = Notice("constructor", "", "void", << >>, << >>)
    /\ steps = 0
    /\ pendingRequests = {}
    /\ subscribedTopics = {}
    /\ requestIds = {}
    /\ psCalls = {}
    /\ timers = {}
    /\ running = "started"
    /\ psRunning = "started"
    /\ dmPeers = {}
    /\ advertised = [peerId \in Peers |-> {}]
    /\ parse = NoParse

\* The identify-based manager with up to MAX_OFFERS offers on record, for
\* MaxSteps handler runs
InitCap ==
    /\ InitCommon
    /\ installed = EmptyMap
    /\ offers \in {CapOffers(k) : k \in CapFill}
    /\ psOffers = EmptyMap
    /\ psInstalled = EmptyMap

NextCap ==
    \/ \E peerId \in Peers, protocols \in ProtocolListsOf(CapIdSet) :
          handleIdentify(peerId, protocols) /\ Bounded
    \/ \E f \in BagToSet(fetches) : \E response \in CapManifestResponses(f) :
          fetchManifestDone(f, response) /\ Bounded
    \/ \E x \in CapUserIds : installExtension(x) /\ Bounded
    \/ \E x \in CapUserIds : dismissOffer(x) /\ Bounded
    \/ \E x \in CapUserIds, peerId \in Peers : removePeer(x, peerId) /\ Bounded
    \/ Tick /\ Bounded

SpecCap == InitCap /\ [][NextCap]_vars

\* The pubsub-based manager with up to MAX_OFFERS offers on record, for
\* MaxSteps handler runs
InitPubsub ==
    /\ InitCommon
    /\ installed = EmptyMap
    /\ offers = EmptyMap
    /\ psOffers \in {psCapOffers(k) : k \in CapFill}
    /\ psInstalled = EmptyMap

NextPubsub ==
    \/ \E evt \in PubsubEvents : handleMessage(evt) /\ Bounded
    \/ \E x \in CapUserIds : psInstallExtension(x) /\ Bounded
    \/ \E x \in CapUserIds : psUninstallExtension(x) /\ Bounded
    \/ \E x \in CapUserIds : psDismissOffer(x) /\ Bounded
    \/ Tick /\ Bounded

SpecPubsub == InitPubsub /\ [][NextPubsub]_vars

\* ---------------------------------------------------------- sessions
\* new ExtensionManager(libp2p) in a new session of the page: the fields get
\* their initializers, then loadInstalledFromStorage runs; whatever the old
\* session had in flight is gone with it.
constructor ==
    /\ installed' = loadInstalledFromStorage(storage)
    /\ offers' = EmptyMap
    /\ listeners' = {}
    /\ fetches' = EmptyBag
    /\ calls' = EmptyBag
    /\ notice' = Notice("constructor", "", "void", << >>, << >>)
    /\ UNCHANGED <<storage, storageFails, now, psVars>>

\* localStorage.setItem starts or stops throwing (quota reached or freed,
\* storage disabled or enabled)
setItemThrows(throws) ==
    /\ storageFails' = throws
    /\ notice' = Notice("setItemThrows", "", "void", << >>, << >>)
    /\ UNCHANGED <<offers, installed, listeners, storage, fetches, calls, now, psVars>>

\* ------------------------------------- specifications of command execution
\* The registry together with the ExtensionProtocol that executes commands,
\* without subscribers and with the clock standing still.
\* Blobs a previous session can have left: none, an installation written
\* before peerIds existed, and one with two peers.
ExecStorages ==
    InitStorages
    \cup {[present |-> TRUE, valid |-> TRUE,
           data |-> << <<"sheet",
                        [manifest |-> [id |-> "sheet", version |-> "1.0.0"],
                         installDate |-> 0, enabled |-> TRUE, hasPeerIds |-> TRUE,
                         peerIds |-> <<"pA", "pB">>, lastSuccessfulPeerId |-> NoPeer]>> >>]}

\* new ExtensionManager(libp2p) and new ExtensionProtocol(libp2p, manager)
InitExec ==
    /\ storage \in ExecStorages
    /\ installed = loadInstalledFromStorage(storage)
    /\ offers = EmptyMap
    /\ listeners = {}
    /\ storageFails = FALSE
    /\ fetches = EmptyBag
    /\ calls = EmptyBag
    /\ now = 0
    /\ notice = Notice("constructor", "", "void", << >>, << >>)
    /\ psOffers = EmptyMap
    /\ psInstalled = EmptyMap
    /\ steps = 0
    /\ pendingRequests = {}
    /\ subscribedTopics = {}
    /\ requestIds = {}
    /\ psCalls = {}
    /\ timers = {}
    /\ running = "started"
    /\ psRunning = "started"
    /\ dmPeers = {}
    /\ advertised = [peerId \in Peers |-> {}]
    /\ parse = NoParse

\* the end of an exchange on the stream of some suspended call
ExchangeEnds ==
    \E c \in BagToSet(calls), response \in CommandResponsesBrief :
        executeOnPeerDone(c, response) /\ UNCHANGED steps

NextExec ==
    \/ \E peerId \in Peers, protocols \in ProtocolLists :
          handleIdentify(peerId, protocols) /\ UNCHANGED steps
    \/ \E f \in BagToSet(fetches), response \in ManifestResponsesBrief :
          fetchManifestDone(f, response) /\ UNCHANGED steps
    \/ \E x \in ExtIds : installExtension(x) /\ UNCHANGED steps
    \/ \E x \in ExtIds, enabled \in BOOLEAN :
          setExtensionEnabled(x, enabled) /\ UNCHANGED steps
    \/ \E x \in ExtIds : executeCommand(x) /\ UNCHANGED steps
    \/ \E c \in BagToSet(calls), opened \in BOOLEAN :
          dialProtocolDone(c, opened) /\ UNCHANGED steps
    \/ ExchangeEnds
    \/ \E x \in ExtIds : uninstallExtension(x) /\ UNCHANGED steps
    \/ \E x \in ExtIds, peerId \in Peers : removePeer(x, peerId) /\ UNCHANGED steps

SpecExec == InitExec /\ [][NextExec]_vars

\* Streams: discovery, installation and command execution with every way a
\* fetch or an exchange can end, the release of the stream included.
NextStreams ==
    \/ \E peerId \in Peers, protocols \in ProtocolLists :
          handleIdentify(peerId, protocols) /\ UNCHANGED steps
    \/ \E f \in BagToSet(fetches), response \in ManifestResponses :
          fetchManifestDone(f, response) /\ UNCHANGED steps
    \/ \E x \in ExtIds : installExtension(x) /\ UNCHANGED steps
    \/ \E x \in ExtIds : executeCommand(x) /\ UNCHANGED steps
    \/ \E c \in BagToSet(calls), opened \in BOOLEAN :
          dialProtocolDone(c, opened) /\ UNCHANGED steps
    \/ \E c \in BagToSet(calls), response \in CommandResponses :
          executeOnPeerDone(c, response) /\ UNCHANGED steps

SpecStreams == InitExec /\ [][NextStreams]_vars

\* ------------------------------------------------------ the parsers
\* What the command bar can be given: every string of up to MaxInputLen
\* characters over a slash, a dash, a blank and two letters
Chars == {"/", "-", " ", "a", "b"}
Strings(alphabet, n) == UNION {[1..k -> alphabet] : k \in 0..n}
Inputs == Strings(Chars, MaxInputLen)

\* every variable but parse as a new session has it
InitIdle ==
    /\ storage = [present |-> FALSE, valid |-> TRUE, data |-> << >>]
    /\ installed = EmptyMap
    /\ offers = EmptyMap
    /\ listeners = {}
    /\ storageFails = FALSE
    /\ fetches = EmptyBag
    /\ calls = EmptyBag
    /\ now = 0
    /\ notice = Notice("constructor", "", "void", << >>, << >>)
    /\ psOffers = EmptyMap
    /\ psInstalled = EmptyMap
    /\ steps = 0
    /\ pendingRequests = {}
    /\ subscribedTopics = {}
    /\ requestIds = {}
    /\ psCalls = {}
    /\ timers = {}
    /\ running = "started"
    /\ psRunning = "started"
    /\ dmPeers = {}
    /\ advertised = [peerId \in Peers |-> {}]

InitParse ==
    /\ InitIdle
    /\ parse \in {[NoParse EXCEPT !.op = "input", !.input = s] : s \in Inputs}

NextParse ==
    \/ parseCommandCall
    \/ isValidCommandCall

SpecParse == InitParse /\ [][NextParse]_vars

\* The protocol strings a peer can advertise: up to MaxProtocolWords pieces,
\* each a slash, "/uc", "/uc/extension" or a letter, one after the other
ProtocolWords ==
    {<<"/">>, <<"/", "u", "c">>,
     <<"/", "u", "c", "/", "e", "x", "t", "e", "n", "s", "i", "o", "n">>, <<"a">>}

RECURSIVE Concat(_)
Concat(ws) == IF ws = << >> THEN << >> ELSE Head(ws) \o Concat(Tail(ws))

ProtocolStrings == {Concat(ws) : ws \in Strings(ProtocolWords, MaxProtocolWords)}

\* the extension ids and versions getExtensionProtocol can be given
Segments == Strings({"a", "1", "/"}, MaxSegmentLen)

InitProtocolString ==
    /\ InitIdle
    /\ parse \in {[NoParse EXCEPT !.op = "protocol", !.input = <<p>>] : p \in ProtocolStrings}
                 \cup {[NoParse EXCEPT !.op = "pair", !.input = <<id, version>>] :
                          id \in Segments, version \in Segments}

NextProtocolString ==
    \/ parseExtensionProtocolCall
    \/ getExtensionProtocolCall
    \/ parseBackCall

SpecProtocolString == InitProtocolString /\ [][NextProtocolString]_vars

\* ------------------------------------------------- command transports
\* Both command protocols of one session: the pubsub one with up to
\* MaxRequests requests, and the direct-stream one for an extension
\* installed with two peers.
RequestIds == 1..MaxRequests

\* the message events of the pubsub service: responses on a command topic
\* for a request id of this node or for another (NoRequest stands for an id
\* this node has not drawn), and one event for each reason to drop it
CmdEvents ==
    {[topic |-> getExtensionCommandTopic(x), type |-> "signed", parses |-> TRUE,
      message |-> [type |-> "response", requestId |-> r, success |-> ok]] :
        x \in ExtIds, r \in RequestIds \cup {NoRequest}, ok \in BOOLEAN}
    \cup {[topic |-> t, type |-> ty, parses |-> ps,
           message |-> [type |-> mt, requestId |-> 1, success |-> TRUE]] :
            t \in {<<EXTENSION_DISCOVERY_TOPIC>>}, ty \in {"signed"},
            ps \in {TRUE}, mt \in {"response"}}
    \cup {[topic |-> getExtensionCommandTopic("sheet"), type |-> ty, parses |-> ps,
           message |-> [type |-> mt, requestId |-> 1, success |-> TRUE]] :
            ty \in {"signed", "unsigned"}, ps \in BOOLEAN, mt \in {"response", "command"}}

InitCommand ==
    /\ storage = [present |-> TRUE, valid |-> TRUE,
                  data |-> << <<"sheet",
                               [manifest |-> [id |-> "sheet", version |-> "1.0.0"],
                                installDate |-> 0, enabled |-> TRUE, hasPeerIds |-> TRUE,
                                peerIds |-> <<"pA", "pB">>,
                                lastSuccessfulPeerId |-> NoPeer]>> >>]
    /\ installed = loadInstalledFromStorage(storage)
    /\ offers = EmptyMap
    /\ listeners = {}
    /\ storageFails = FALSE
    /\ fetches = EmptyBag
    /\ calls = EmptyBag
    /\ now = 0
    /\ notice = Notice("constructor", "", "void", << >>, << >>)
    /\ psOffers = EmptyMap
    /\ psInstalled = EmptyMap
    /\ steps = 0
    /\ pendingRequests = {}
    /\ subscribedTopics = {}
    /\ requestIds = {}
    /\ psCalls = {}
    /\ timers = {}
    /\ running = "started"
    /\ psRunning = "started"
    /\ dmPeers = {}
    /\ advertised = [peerId \in Peers |-> {}]
    /\ parse = NoParse

NextCommand ==
    \/ \E x \in ExtIds, subscribes \in BOOLEAN, requestId \in RequestIds :
          cmdExecuteCommand(x, subscribes, requestId) /\ UNCHANGED steps
    \/ \E c \in psCalls, ok \in BOOLEAN : cmdPublishDone(c, ok) /\ UNCHANGED steps
    \/ \E evt \in CmdEvents : cmdHandleMessage(evt) /\ UNCHANGED steps
    \/ \E requestId \in timers : cmdTimeout(requestId) /\ UNCHANGED steps
    \/ cmdStop /\ UNCHANGED steps
    \/ \E x \in ExtIds : executeCommand(x) /\ UNCHANGED steps
    \/ \E c \in BagToSet(calls), opened \in BOOLEAN :
          dialProtocolDone(c, opened) /\ UNCHANGED steps
    \/ \E c \in BagToSet(calls), response \in CommandResponsesBrief :
          executeOnPeerDone(c, response) /\ UNCHANGED steps

SpecCommand == InitCommand /\ [][NextCommand]_vars

\* ------------------------------------------------------ direct messages
\* What a send or a receive meets: openConnection yields a connection,
\* newStream a stream, the write and the read under the 5 s signal yield a
\* response ("response"), a falsy one ("none") or throw ("timeout"); the
\* response has metadata, its status is OK; stream.close() resolves.
DmOutcomes ==
    {[connects |-> FALSE, opened |-> FALSE, answer |-> "none", hasMetadata |-> FALSE,
      statusOk |-> FALSE, closes |-> TRUE],
     [connects |-> TRUE, opened |-> FALSE, answer |-> "none", hasMetadata |-> FALSE,
      statusOk |-> FALSE, closes |-> TRUE]}
    \cup {[connects |-> TRUE, opened |-> TRUE, answer |-> a, hasMetadata |-> FALSE,
           statusOk |-> FALSE, closes |-> cl] :
            a \in {"timeout", "none"}, cl \in BOOLEAN}
    \cup {[connects |-> TRUE, opened |-> TRUE, answer |-> "response", hasMetadata |-> md,
           statusOk |-> ok, closes |-> cl] :
            md \in BOOLEAN, ok \in BOOLEAN, cl \in BOOLEAN}

DmMessages == {"", "hi", "bye"}

\* DirectMessage.send, the try block: the error it throws, '' when it runs
\* to its end
sendError(message, outcome) ==
    IF message = "" THEN "EMPTY_MESSAGE"
    ELSE IF ~outcome.connects THEN "NO_CONNECTION"
    ELSE IF ~outcome.opened THEN "NO_STREAM"
    ELSE IF outcome.answer = "timeout" THEN "TimeoutError"
    ELSE IF outcome.answer = "none" THEN "NO_RESPONSE"
    ELSE IF ~outcome.hasMetadata THEN "NO_METADATA"
    ELSE IF ~outcome.statusOk THEN "STATUS_NOT_OK"
    ELSE ""

\* The variable `stream` that the catch and the finally block of send read:
\* the one declared before try.  The stream newStream returns is bound to a
\* const of the same name inside the try block, which hides the outer
\* variable there; nothing assigns the outer one.
sendOuterStream(opened) == "undefined"

\* catch { stream?.abort(e) } finally { await stream?.close(...) } with abort
\* on a close that throws: what becomes of the stream that was opened
sendRelease(outer, thrown, closes) ==
    IF outer = "undefined" THEN "open"
    ELSE IF thrown THEN "aborted"
    ELSE releaseStream(closes)

\* DirectMessage.send
dmSend(peerId, message, outcome) ==
    LET error == sendError(message, outcome)
        created == message # "" /\ outcome.connects /\ outcome.opened
        gotResponse == created /\ outcome.answer = "response"
        closeThrows == created /\ sendOuterStream(TRUE) # "undefined" /\ ~outcome.closes
    IN /\ dmPeers' = IF gotResponse THEN dmPeers \cup {peerId} ELSE dmPeers
       /\ notice' = [Notice("dmSend", "",
                             IF error # "" THEN error
                             ELSE IF closeThrows THEN "CloseError" ELSE "true",
                             << >>, <<peerId, message>>)
                       EXCEPT !.attempts =
                          IF created
                          THEN <<Attempt(peerId,
                                         sendRelease(sendOuterStream(TRUE), error # "",
                                                     outcome.closes),
                                         IF gotResponse THEN "matching" ELSE "none",
                                         gotResponse)>>
                          ELSE << >>]
       /\ UNCHANGED <<offers, installed, listeners, storage, storageFails, fetches, calls,
                      now, psOffers, psInstalled, pendingRequests, subscribedTopics,
                      requestIds, psCalls, parse, timers, running, psRunning, advertised>>

\* DirectMessage.receive: the handler of an incoming stream; its `stream` is
\* the parameter, so catch and finally act on the stream itself
dmReceive(peerId, outcome) ==
    LET answered == outcome.answer = "response"
    IN /\ outcome.opened
       /\ dmPeers' = IF answered THEN dmPeers \cup {peerId} ELSE dmPeers
       /\ notice' = [Notice("dmReceive", "",
                             IF ~answered THEN "TimeoutError"
                             ELSE IF ~outcome.closes THEN "CloseError" ELSE "void",
                             << >>, <<peerId>>)
                       EXCEPT !.attempts =
                          <<Attempt(peerId,
                                    IF answered THEN releaseStream(outcome.closes)
                                    ELSE "aborted",
                                    IF answered THEN "matching" ELSE "none", answered)>>]
       /\ UNCHANGED <<offers, installed, listeners, storage, storageFails, fetches, calls,
                      now, psOffers, psInstalled, pendingRequests, subscribedTopics,
                      requestIds, psCalls, parse, timers, running, psRunning, advertised>>

\* DirectMessage.handleConnect
handleConnect(peerId) ==
    /\ dmPeers' = dmPeers \cup {peerId}
    /\ notice' = Notice("handleConnect", "", "void", << >>, <<peerId>>)
    /\ UNCHANGED <<offers, installed, listeners, storage, storageFails, fetches, calls,
                   now, psOffers, psInstalled, pendingRequests, subscribedTopics,
                   requestIds, psCalls, parse, timers, running, psRunning, advertised>>

\* DirectMessage.handleDisconnect
handleDisconnect(peerId) ==
    /\ dmPeers' = dmPeers \ {peerId}
    /\ notice' = Notice("handleDisconnect", "", "void", << >>, <<peerId>>)
    /\ UNCHANGED <<offers, installed, listeners, storage, storageFails, fetches, calls,
                   now, psOffers, psInstalled, pendingRequests, subscribedTopics,
                   requestIds, psCalls, parse, timers, running, psRunning, advertised>>

NextDirectMessage ==
    \/ \E peerId \in Peers, message \in DmMessages, outcome \in DmOutcomes :
          dmSend(peerId, message, outcome) /\ UNCHANGED steps
    \/ \E peerId \in Peers, outcome \in DmOutcomes :
          dmReceive(peerId, outcome) /\ UNCHANGED steps
    \/ \E peerId \in Peers : handleConnect(peerId) /\ UNCHANGED steps
    \/ \E peerId \in Peers : handleDisconnect(peerId) /\ UNCHANGED steps

\* new DirectMessage(components): no DM peers
InitDirectMessage == InitIdle /\ parse = NoParse

SpecDirectMessage == InitDirectMessage /\ [][NextDirectMessage]_vars

\* ------------------------------------------------------ start and stop
\* ExtensionManager.start: the bound handler is registered for
\* 'peer:identify' (registering it again changes nothing)
start ==
    /\ running' = "started"
    /\ notice' = Notice("start", "", "void", << >>, << >>)
    /\ UNCHANGED <<offers, installed, listeners, storage, storageFails, fetches, calls,
                   now, psOffers, psInstalled, pendingRequests, subscribedTopics,
                   requestIds, psCalls, parse, timers, psRunning, dmPeers, advertised>>

\* ExtensionManager.stop: the same bound handler is removed; nothing else
\* is touched, a fetch that is awaited stays awaited
stop ==
    /\ running' = "stopped"
    /\ notice' = Notice("stop", "", "void", << >>, << >>)
    /\ UNCHANGED <<offers, installed, listeners, storage, storageFails, fetches, calls,
                   now, psOffers, psInstalled, pendingRequests, subscribedTopics,
                   requestIds, psCalls, parse, timers, psRunning, dmPeers, advertised>>

\* ExtensionManager.start (pubsub): subscribe, then addEventListener with
\* this.handleMessage.bind(this)
psStart ==
    /\ psRunning' = "started"
    /\ notice' = Notice("psStart", "", "void", << >>, << >>)
    /\ UNCHANGED <<offers, installed, listeners, storage, storageFails, fetches, calls,
                   now, psOffers, psInstalled, pendingRequests, subscribedTopics,
                   requestIds, psCalls, parse, timers, running, dmPeers, advertised>>

\* ExtensionManager.stop (pubsub): removeEventListener is given a function
\* bind has just made, which was never registered, so the handler start
\* registered stays; the topic stays subscribed
psStop ==
    /\ psRunning # "new"
    /\ psRunning' = "stopped"
    /\ notice' = Notice("psStop", "", "void", << >>, << >>)
    /\ UNCHANGED <<offers, installed, listeners, storage, storageFails, fetches, calls,
                   now, psOffers, psInstalled, pendingRequests, subscribedTopics,
                   requestIds, psCalls, parse, timers, running, dmPeers, advertised>>

\* messages of the discovery topic: an offer that is recorded, one that is not
StopEvents ==
    {OfferEvent("x01", EXTENSION_DISCOVERY_TOPIC, "signed", TRUE, "offer", TRUE, TRUE),
     OfferEvent("x01", EXTENSION_DISCOVERY_TOPIC, "signed", TRUE, "other", TRUE, TRUE)}

NextStop ==
    \/ start /\ UNCHANGED steps
    \/ stop /\ UNCHANGED steps
    \/ \E peerId \in Peers, protocols \in ProtocolLists :
          handleIdentify(peerId, protocols) /\ UNCHANGED steps
    \/ \E f \in BagToSet(fetches), response \in ManifestResponsesBrief :
          fetchManifestDone(f, response) /\ UNCHANGED steps
    \/ \E listener \in ListenerIds : onChange(listener) /\ UNCHANGED steps
    \/ psStart /\ UNCHANGED steps
    \/ psStop /\ UNCHANGED steps
    \/ \E evt \in StopEvents : handleMessage(evt) /\ UNCHANGED steps

SpecStop == Init /\ [][NextStop]_vars

\* ------------------------------------------------------------ versions
\* An extension that peers run in two versions: what they advertise and
\* what they put into the manifest they return.
AllVersions == {"1.0.0", "2.0.0"}

VersionedProtocolLists ==
    {<< >>} \cup {<<getExtensionProtocol(x, v)>> : x \in ExtIds, v \in AllVersions}

VersionedManifestResponses ==
    {[opened |-> TRUE, closes |-> TRUE, arrived |-> FALSE, payload |-> "",
      hasManifest |-> FALSE, manifest |-> [id |-> "", version |-> ""]]}
    \cup {[opened |-> TRUE, closes |-> TRUE, arrived |-> TRUE, payload |-> "manifest",
           hasManifest |-> TRUE, manifest |-> [id |-> x, version |-> v]] :
            x \in ExtIds, v \in AllVersions}

NextVersions ==
    \/ \E peerId \in Peers, protocols \in VersionedProtocolLists :
          peerIdentify(peerId, protocols) /\ UNCHANGED steps
    \/ \E f \in BagToSet(fetches), response \in VersionedManifestResponses :
          fetchManifestDone(f, response) /\ UNCHANGED steps
    \/ \E x \in ExtIds : installExtension(x) /\ UNCHANGED steps
    \/ \E x \in ExtIds : uninstallExtension(x) /\ UNCHANGED steps
    \/ \E x \in ExtIds, peerId \in Peers : removePeer(x, peerId) /\ UNCHANGED steps

SpecVersions == Init /\ [][NextVersions]_vars

\* -------------------------------------------------- listeners that throw
\* The registry with a well-behaved listener and one that throws
NextListeners ==
    \/ \E peerId \in Peers, protocols \in ProtocolLists :
          handleIdentify(peerId, protocols) /\ UNCHANGED steps
    \/ \E f \in BagToSet(fetches), response \in ManifestResponsesBrief :
          fetchManifestDone(f, response) /\ UNCHANGED steps
    \/ \E x \in ExtIds : installExtension(x) /\ UNCHANGED steps
    \/ \E x \in ExtIds : uninstallExtension(x) /\ UNCHANGED steps
    \/ \E x \in ExtIds : dismissOffer(x) /\ UNCHANGED steps
    \/ \E x \in ExtIds, peerId \in Peers : removePeer(x, peerId) /\ UNCHANGED steps
    \/ \E listener \in ListenerIds \cup ThrowingListeners :
          onChange(listener) /\ UNCHANGED steps
    \/ \E listener \in ListenerIds \cup ThrowingListeners :
          unsubscribe(listener) /\ UNCHANGED steps

SpecListeners == Init /\ [][NextListeners]_vars

\* The deadlines the code sets: the write and the read of an exchange share
\* AbortSignal.timeout(COMMAND_TIMEOUT), so an exchange that has begun ends.
\* dialProtocol is awaited without a signal: nothing in the code ends it.
SpecExecLive == SpecExec /\ WF_vars(ExchangeEnds)

\* ------------------------------------------- specification of persistence
\* What can be found under STORAGE_KEY: the blobs above and one that cannot
\* be read back (not JSON, or not an array of [key, record] pairs)
StorageBlobs ==
    ExecStorages \cup {[present |-> TRUE, valid |-> FALSE, data |-> << >>]}

InitStorage ==
    /\ storage \in StorageBlobs
    /\ installed = loadInstalledFromStorage(storage)
    /\ offers = EmptyMap
    /\ listeners = {}
    /\ storageFails \in BOOLEAN
    /\ fetches = EmptyBag
    /\ calls = EmptyBag
    /\ now = 0
    /\ notice = Notice("constructor", "", "void", << >>, << >>)
    /\ psOffers = EmptyMap
    /\ psInstalled = EmptyMap
    /\ steps = 0
    /\ pendingRequests = {}
    /\ subscribedTopics = {}
    /\ requestIds = {}
    /\ psCalls = {}
    /\ timers = {}
    /\ running = "started"
    /\ psRunning = "started"
    /\ dmPeers = {}
    /\ advertised = [peerId \in Peers |-> {}]
    /\ parse = NoParse

NextStorage ==
    \/ \E peerId \in Peers, protocols \in ProtocolLists :
          handleIdentify(peerId, protocols) /\ UNCHANGED steps
    \/ \E f \in BagToSet(fetches), response \in ManifestResponsesBrief :
          fetchManifestDone(f, response) /\ UNCHANGED steps
    \/ \E x \in ExtIds : installExtension(x) /\ UNCHANGED steps
    \/ \E x \in ExtIds : uninstallExtension(x) /\ UNCHANGED steps
    \/ \E x \in ExtIds, enabled \in BOOLEAN :
          setExtensionEnabled(x, enabled) /\ UNCHANGED steps
    \/ \E x \in ExtIds, peerId \in Peers : removePeer(x, peerId) /\ UNCHANGED steps
    \/ \E throws \in BOOLEAN : setItemThrows(throws) /\ UNCHANGED steps
    \/ constructor /\ UNCHANGED steps

SpecStorage == InitStorage /\ [][NextStorage]_vars

\* ================================================================ claims

\* C1: no extension id is a key of both the offers map and the installed map,
\* in any reachable state of the identify-based manager.
C1_OffersInstalledDisjoint == (MapKeys(offers)) \cap (MapKeys(installed)) = {}

\* C4: the peerIds of every offer and of every installed extension hold no
\* peer id twice.
C4_NoDuplicatePeers ==
    /\ \A x \in MapKeys(offers) : NoDup(offers.val[x].peerIds)
    /\ \A x \in MapKeys(installed) : NoDup(installed.val[x].peerIds)

\* a peer already listed in a two-peer offer has been sighted again
C4_Witness ==
    /\ notice.op = "handleIdentify"
    /\ notice.notes = << >>
    /\ fetches = EmptyBag
    /\ "sheet" \in MapKeys(offers)
    /\ Len(offers.val["sheet"].peerIds) = 2
    /\ includes(offers.val["sheet"].peerIds, notice.detail[1])

\* C6: a successful installExtension(x) leaves x installed with the offer's
\* manifest, enabled, with the offer's peers in the offer's order, and leaves
\* no offer for x.
C6_InstallMovesOffer ==
    [][\A x \in ExtIds :
        (notice'.op = "installExtension" /\ notice'.extensionId = x
         /\ notice'.result = "true")
        => /\ x \in MapKeys(offers)
           /\ x \in MapKeys(installed')
           /\ installed'.val[x].manifest = offers.val[x].manifest
           /\ installed'.val[x].enabled = TRUE
           /\ installed'.val[x].peerIds = offers.val[x].peerIds
           /\ x \notin MapKeys(offers')]_vars

\* an offer seen from two peers has just been installed
C6_Witness ==
    /\ notice.op = "installExtension"
    /\ notice.result = "true"
    /\ "sheet" \in MapKeys(installed)
    /\ Len(installed.val["sheet"].peerIds) = 2

\* C7: a successful uninstallExtension(x) removes the installation and leaves
\* the offers map as it was; afterwards only installExtension makes x
\* installed again, whatever executeCommand attempts complete and whatever
\* discovery events arrive.
C7_UninstallStays ==
    [][\A x \in ExtIds :
        /\ (notice'.op = "uninstallExtension" /\ notice'.extensionId = x
            /\ notice'.result = "true")
           => (x \notin MapKeys(installed') /\ offers' = offers)
        /\ (x \notin MapKeys(installed) /\ x \in MapKeys(installed'))
           => (notice'.op = "installExtension" /\ notice'.extensionId = x
               /\ notice'.result = "true")]_vars

\* an executeCommand attempt that was in flight across the uninstall has
\* succeeded, and the extension is still uninstalled
C7_Witness ==
    /\ notice.op = "executeCommand"
    /\ notice.result = "success"
    /\ notice.extensionId \notin MapKeys(installed)

\* C8: in no notifyListeners call made by installExtension does a listener see
\* the extension in both maps or in neither.
C8_InstallAtomicForListeners ==
    (notice.op = "installExtension")
    => \A k \in 1..Len(notice.notes) :
          notice.notes[k].invoked # {}
          => ((notice.extensionId \in notice.notes[k].offers)
              # (notice.extensionId \in notice.notes[k].installed))

\* a subscribed listener has been called by a successful installExtension
C8_Witness ==
    /\ notice.op = "installExtension"
    /\ notice.result = "true"
    /\ Len(notice.notes) = 1
    /\ notice.notes[1].invoked = {"l1"}

\* C9: installExtension without an offer or of an installed id, and
\* uninstallExtension or setExtensionEnabled of an id that is not installed,
\* return false and change neither offers, installations, storage nor the
\* listeners, and call no listener.
C9_FailuresChangeNothing ==
    [][\A x \in ExtIds :
        /\ (notice'.op = "installExtension" /\ notice'.extensionId = x
            /\ (x \notin MapKeys(offers) \/ x \in MapKeys(installed)))
           => notice'.result = "false"
        /\ (notice'.op \in {"uninstallExtension", "setExtensionEnabled"}
            /\ notice'.extensionId = x /\ x \notin MapKeys(installed))
           => notice'.result = "false"
        /\ (notice'.op \in {"installExtension", "uninstallExtension",
                            "setExtensionEnabled"}
            /\ notice'.result = "false")
           => /\ offers' = offers
              /\ installed' = installed
              /\ storage' = storage
              /\ listeners' = listeners
              /\ notice'.notes = << >>]_vars

\* installExtension of an already installed id has been refused while a
\* listener is subscribed
C9_Witness ==
    /\ notice.op = "installExtension"
    /\ notice.result = "false"
    /\ notice.extensionId \in MapKeys(installed)
    /\ listeners # {}

\* C10: removePeer(x, p) takes p out of the peerIds of x's installation and of
\* x's offer and keeps the other peers in order; an offer left without peers
\* is deleted, so no offer ever has an empty peer list; a
\* lastSuccessfulPeerId equal to p is cleared.
C10_RemovePeer ==
    /\ [](\A x \in MapKeys(offers) : Len(offers.val[x].peerIds) > 0)
    /\ [][\A x \in ExtIds, p \in Peers :
            (notice'.op = "removePeer" /\ notice'.extensionId = x
             /\ notice'.detail = <<p>>)
            => /\ (x \in MapKeys(installed))
                  => /\ x \in MapKeys(installed')
                     /\ installed'.val[x].peerIds = filterNot(installed.val[x].peerIds, p)
                     /\ ~includes(installed'.val[x].peerIds, p)
                     /\ installed'.val[x].lastSuccessfulPeerId # p
                     /\ (installed.val[x].lastSuccessfulPeerId # p
                         => installed'.val[x].lastSuccessfulPeerId
                              = installed.val[x].lastSuccessfulPeerId)
               /\ (x \in MapKeys(offers))
                  => IF filterNot(offers.val[x].peerIds, p) = << >>
                     THEN x \notin MapKeys(offers')
                     ELSE /\ x \in MapKeys(offers')
                          /\ offers'.val[x].peerIds = filterNot(offers.val[x].peerIds, p)]_vars

\* the last peer of an offer has been removed and the offer is gone
C10_Witness ==
    /\ notice.op = "removePeer"
    /\ Len(notice.notes) = 1
    /\ notice.extensionId \notin notice.notes[1].offers
    /\ notice.extensionId \notin MapKeys(offers)

\* C2: the registry never holds more than MAX_OFFERS offers.
C2_OfferCountBounded ==
    /\ MapSize(offers) <= MAX_OFFERS
    /\ MapSize(psOffers) <= MAX_OFFERS

\* C3: when a new offer makes the count exceed the cap, exactly one offer is
\* removed and every other one is kept as it was; the removed one has the
\* smallest timestamp of all offers, the new one included, and of several
\* with that timestamp it is the first in the order of the map.
C3_EvictsOldest ==
    [][\A x \in CapIdSet :
        (/\ notice'.op = "handleMessage" /\ notice'.result = "offer"
         /\ notice'.extensionId = x
         /\ ~MapHas(psOffers, x)
         /\ MapSize(psOffers) = MAX_OFFERS)
        => LET all == MapSet(psOffers, x,
                             [manifest |-> [id |-> x, version |-> "1.0.0"],
                              timestamp |-> now, publisherPeerId |-> "pA"])
               pos(k) == CHOOSE n \in 1..Len(all.keys) : all.keys[n] = k
           IN \E victim \in MapKeys(all) :
                /\ MapKeys(psOffers') = MapKeys(all) \ {victim}
                /\ MapSize(psOffers') = MAX_OFFERS
                /\ \A y \in MapKeys(all) :
                      /\ all.val[victim].timestamp <= all.val[y].timestamp
                      /\ (all.val[victim].timestamp = all.val[y].timestamp
                          => pos(victim) <= pos(y))
                /\ \A y \in MapKeys(psOffers') : psOffers'.val[y] = all.val[y]
                /\ psOffers'.keys = filterNot(all.keys, victim)]_vars

\* the eleventh offer has arrived after the first one was refreshed: the
\* second, now the oldest, is gone
C3_Witness ==
    /\ notice.op = "handleMessage"
    /\ notice.result = "offer"
    /\ notice.extensionId = "x11"
    /\ steps <= 3
    /\ MapSize(psOffers) = MAX_OFFERS
    /\ MapHas(psOffers, "x01")
    /\ MapGet(psOffers, "x01").timestamp = 1
    /\ ~MapHas(psOffers, "x02")

\* C5: once the offer for a fetched manifest m is recorded, getAvailableOffers()
\* holds exactly one offer whose manifest id is m.id, and the peer it was
\* fetched from is among that offer's peers.
C5_OneOfferPerManifestId ==
    (notice.op = "fetchManifest" /\ notice.result = "offer")
    => LET got == getAvailableOffers(offers)
           hits == {k \in 1..Len(got) : got[k].manifest.id = notice.detail[2]}
       IN /\ Cardinality(hits) = 1
          /\ \A k \in hits : includes(got[k].peerIds, notice.detail[1])

\* an executeCommand call that has just been started: it waits for the dial
\* of its first candidate
NewCalls == {c \in BagToSet(calls') : c.i = 1 /\ c.phase = "dial"
                                       /\ CopiesIn(c, calls') > CopiesIn(c, calls)}

\* C11: when an executeCommand call returns the response of a peer after
\* earlier candidates failed, that peer becomes the lastSuccessfulPeerId of
\* the (still installed) extension; and an executeCommand call started while
\* a lastSuccessfulPeerId is recorded and in the peer list dials that peer
\* first.
C11_FailoverThenPreferred ==
    [][/\ (notice'.op = "executeCommand" /\ notice'.result = "success"
           /\ MapHas(installed, notice'.extensionId))
          => LET att == notice'.detail
             IN MapGet(installed', notice'.extensionId).lastSuccessfulPeerId
                   = att[Len(att)].peerId
       /\ \A c \in NewCalls :
             LET e == MapGet(installed, c.extensionId)
             IN (e.lastSuccessfulPeerId # NoPeer
                    /\ includes(e.peerIds, e.lastSuccessfulPeerId))
                => /\ c.peerIds[1] = e.lastSuccessfulPeerId
                   /\ notice'.detail = <<e.lastSuccessfulPeerId>>]_vars

\* peers [pA, pB]: pA failed, pB answered and is now the last successful peer
C11_Witness ==
    /\ notice.op = "executeCommand"
    /\ notice.result = "success"
    /\ Len(notice.detail) = 2
    /\ notice.detail[1].peerId = "pA"
    /\ notice.detail[2].peerId = "pB"
    /\ MapHas(installed, "sheet")
    /\ MapGet(installed, "sheet").peerIds = <<"pA", "pB">>
    /\ MapGet(installed, "sheet").lastSuccessfulPeerId = "pB"

\* the position of peer p in the list s (0 when absent)
IndexOf(s, p) == IF includes(s, p) THEN CHOOSE k \in 1..Len(s) : s[k] = p ELSE 0

\* C12: getExtensionPeers returns each stored peer exactly once; the
\* lastSuccessfulPeerId comes first when it is recorded and stored, and the
\* other peers keep their stored order.  A successful command changes only
\* lastSuccessfulPeerId: the keys of installed and every stored peerIds list
\* stay as they were.
C12_CandidatesArePermutation ==
    /\ [](\A x \in MapKeys(installed) :
            LET e == MapGet(installed, x)
                got == getExtensionPeers(installed, x)
                last == e.lastSuccessfulPeerId
            IN /\ Len(got) = Len(e.peerIds)
               /\ NoDup(got)
               /\ \A p \in Peers : includes(got, p) <=> includes(e.peerIds, p)
               /\ (last # NoPeer /\ includes(e.peerIds, last)) => got[1] = last
               /\ \A p, q \in Peers \ {last} :
                     (includes(got, p) /\ includes(got, q))
                     => (IndexOf(got, p) < IndexOf(got, q)
                         <=> IndexOf(e.peerIds, p) < IndexOf(e.peerIds, q)))
    /\ [][(notice'.op = "executeCommand" /\ notice'.result = "success")
          => /\ MapKeys(installed') = MapKeys(installed)
             /\ installed'.keys = installed.keys
             /\ \A x \in MapKeys(installed) :
                   /\ MapGet(installed', x).peerIds = MapGet(installed, x).peerIds
                   /\ MapGet(installed', x).manifest = MapGet(installed, x).manifest
                   /\ MapGet(installed', x).enabled = MapGet(installed, x).enabled]_vars

\* the second stored peer was marked successful: it is tried first, the
\* stored list is as before
C12_Witness ==
    /\ MapHas(installed, "sheet")
    /\ MapGet(installed, "sheet").peerIds = <<"pA", "pB">>
    /\ MapGet(installed, "sheet").lastSuccessfulPeerId = "pB"
    /\ getExtensionPeers(installed, "sheet") = <<"pB", "pA">>
    /\ notice.op = "executeCommand"
    /\ notice.result = "success"
    /\ Len(notice.detail) = 1

\* C13: executeCommand throws 'not installed' exactly when the extension is
\* not installed and 'no peers' exactly when it is installed with an empty
\* candidate list; in both cases no call is left waiting on a stream, and a
\* call is only ever started for an installed extension with a candidate.
C13_FailsFastDistinctErrors ==
    [][/\ (notice'.op = "executeCommand" /\ notice'.result = "notInstalled")
          => (~MapHas(installed, notice'.extensionId) /\ calls' = calls)
       /\ (notice'.op = "executeCommand" /\ notice'.result = "noPeers")
          => /\ MapHas(installed, notice'.extensionId)
             /\ Len(MapGet(installed, notice'.extensionId).peerIds) = 0
             /\ calls' = calls
       /\ \A c \in NewCalls :
             /\ MapHas(installed, c.extensionId)
             /\ Len(MapGet(installed, c.extensionId).peerIds) > 0]_vars

\* executeCommand on an installed extension without peers has thrown
C13_Witness ==
    /\ notice.op = "executeCommand"
    /\ notice.result = "noPeers"
    /\ MapHas(installed, "sheet")
    /\ MapGet(installed, "sheet").peerIds = << >>
    /\ calls = EmptyBag

\* C14: a call in flight has recorded one failure for each candidate it has
\* given up, in the order tried; when the last candidate fails the aggregate
\* error lists the failure of every candidate of the call, in that order, each
\* with its own reason.
C14_AggregateError ==
    /\ [](\A c \in BagToSet(calls) :
            /\ Len(c.errors) = c.i - 1
            /\ \A k \in 1..Len(c.errors) : c.errors[k].peerId = c.peerIds[k])
    /\ [][(notice'.op = "executeCommand" /\ notice'.result = "allFailed")
          => \E c \in BagToSet(calls) :
                /\ c.extensionId = notice'.extensionId
                /\ c.i = Len(c.peerIds)
                /\ Len(notice'.detail) = Len(c.peerIds)
                /\ \A k \in 1..Len(c.peerIds) : notice'.detail[k].peerId = c.peerIds[k]
                /\ SubSeq(notice'.detail, 1, Len(c.errors)) = c.errors]_vars

\* two candidates failed for different reasons and both are reported
C14_Witness ==
    /\ notice.op = "executeCommand"
    /\ notice.result = "allFailed"
    /\ Len(notice.detail) = 2
    /\ notice.detail[1].peerId = "pA"
    /\ notice.detail[2].peerId = "pB"
    /\ notice.detail[1].message = "Invalid response"
    /\ notice.detail[2].message = "aborted"

\* C15: every executeCommand call that was started ends, with a response or
\* with the all-peers-failed error.
C15_CallsTerminate == (calls # EmptyBag) ~> (calls = EmptyBag)

\* the blob a successful write of the installed map i leaves
BlobOf(i) == [present |-> TRUE, valid |-> TRUE, data |-> JSONstringify(i)]

\* C16: while writes do not fail, what is stored loads back to the installed
\* map in memory; every step that changes the installed map stores exactly
\* the whole new map, and no step stores anything else (offers in particular).
C16_InstalledPersisted ==
    /\ [](loadInstalledFromStorage(storage) = installed)
    /\ [][/\ installed' # installed => storage' = BlobOf(installed')
          /\ storage' = storage \/ storage' = BlobOf(installed')]_vars

\* a second peer was sighted for an installed extension and the stored blob
\* lists it
C16_Witness ==
    /\ notice.op = "handleIdentify"
    /\ MapHas(installed, "sheet")
    /\ MapGet(installed, "sheet").peerIds = <<"pB", "pA">>
    /\ storage = BlobOf(installed)
    /\ offers = EmptyMap

\* C17: a new ExtensionManager constructed over the blob written for the
\* installed map has the same installation ids (in the same order) and, for
\* each, the same manifest, enabled flag and peers.
C17_RoundTrip ==
    [][(notice'.op = "constructor" /\ storage = BlobOf(installed))
       => /\ installed'.keys = installed.keys
          /\ MapKeys(installed') = MapKeys(installed)
          /\ \A x \in MapKeys(installed) :
                /\ MapGet(installed', x).manifest = MapGet(installed, x).manifest
                /\ MapGet(installed', x).enabled = MapGet(installed, x).enabled
                /\ \A p \in Peers : includes(MapGet(installed', x).peerIds, p)
                                    <=> includes(MapGet(installed, x).peerIds, p)]_vars

\* a disabled installation with one peer left came back from storage
C17_Witness ==
    /\ notice.op = "constructor"
    /\ storage = BlobOf(installed)
    /\ MapHas(installed, "sheet")
    /\ MapGet(installed, "sheet").enabled = FALSE
    /\ MapGet(installed, "sheet").peerIds = <<"pB">>

\* C18: while setItem throws, installExtension, uninstallExtension and
\* setExtensionEnabled still return true when their preconditions hold and
\* the installed map shows the change, and what is stored stays as it was; a
\* manager constructed over nothing or over an unreadable blob starts with an
\* empty installed map and no offers.
C18_StorageFailureNotFatal ==
    /\ []((notice.op = "constructor" /\ (~storage.present \/ ~storage.valid))
          => (installed = EmptyMap /\ offers = EmptyMap))
    /\ [][storageFails
          => /\ storage' = storage
             /\ (notice'.op = "installExtension" /\ MapHas(offers, notice'.extensionId)
                   /\ ~MapHas(installed, notice'.extensionId))
                => /\ notice'.result = "true"
                   /\ MapHas(installed', notice'.extensionId)
                   /\ ~MapHas(offers', notice'.extensionId)
             /\ (notice'.op = "uninstallExtension" /\ MapHas(installed, notice'.extensionId))
                => /\ notice'.result = "true"
                   /\ ~MapHas(installed', notice'.extensionId)
             /\ (notice'.op = "setExtensionEnabled" /\ MapHas(installed, notice'.extensionId))
                => /\ notice'.result = "true"
                   /\ MapHas(installed', notice'.extensionId)]_vars

\* an extension was installed over an unreadable blob while setItem throws
C18_Witness ==
    /\ storageFails
    /\ ~storage.valid
    /\ notice.op = "installExtension"
    /\ notice.result = "true"
    /\ MapHas(installed, "sheet")
    /\ ~MapHas(offers, "sheet")

\* C19: every step that changes the offers map or the installed map (their
\* keys, a peer list, a lastSuccessfulPeerId, any field) ends with a
\* notifyListeners call that reaches every subscribed listener and shows the
\* maps as the step leaves them.
C19_NotifiedOnEveryMutation ==
    [][(offers' # offers \/ installed' # installed)
       => /\ Len(notice'.notes) > 0
          /\ LET last == notice'.notes[Len(notice'.notes)]
             IN /\ last.invoked = listeners
                /\ last.offers = MapKeys(offers')
                /\ last.installed = MapKeys(installed')]_vars

\* C20: after a peer:identify event of peer p that sights extension x while
\* an offer for x is on record, the offer's timestamp is the time of the
\* event and p is among the offer's peers.
C20_SightingRefreshesOffer ==
    [][notice'.op = "handleIdentify"
       => \A k \in 2..Len(notice'.detail) :
             LET x == notice'.detail[k]
             IN MapHas(offers, x)
                => /\ MapHas(offers', x)
                   /\ MapGet(offers', x).timestamp = now
                   /\ includes(MapGet(offers', x).peerIds, notice'.detail[1])]_vars

\* C21: after a peer has disconnected it is in the peerIds of no installed
\* extension.
C21_DisconnectShrinksPeers ==
    [][notice'.op = "peerDisconnect"
       => \A x \in MapKeys(installed') :
             ~includes(MapGet(installed', x).peerIds, notice'.detail[1])]_vars

\* the installed map i with the enabled flag of x inverted
FlipEnabled(i, x) == [i EXCEPT !.val[x].enabled = ~@]

\* C22: for every installed extension, what executeCommand decides before
\* dialing (error, candidates, protocol) and what a successful attempt
\* records are the same whether enabled is true or false; and
\* setExtensionEnabled changes nothing but the enabled flag of that one
\* installation.
C22_EnabledIsInformational ==
    /\ [](\A x \in MapKeys(installed) :
            /\ executeCommandStart(FlipEnabled(installed, x), x)
                  = executeCommandStart(installed, x)
            /\ \A p \in Peers :
                  markPeerSuccess(FlipEnabled(installed, x), x, p)
                     = FlipEnabled(markPeerSuccess(installed, x, p), x))
    /\ [][notice'.op = "setExtensionEnabled"
          => /\ offers' = offers
             /\ calls' = calls
             /\ fetches' = fetches
             /\ installed'.keys = installed.keys
             /\ \A x \in MapKeys(installed) :
                   [MapGet(installed', x) EXCEPT !.enabled = MapGet(installed, x).enabled]
                      = MapGet(installed, x)]_vars

\* a command on a disabled extension with two peers was answered
C22_Witness ==
    /\ notice.op = "executeCommand"
    /\ notice.result = "success"
    /\ MapHas(installed, "sheet")
    /\ ~MapGet(installed, "sheet").enabled
    /\ Len(MapGet(installed, "sheet").peerIds) = 2

\* the stretch of s without white space that begins at position i and is
\* not part of a longer one to the right
RunAt(s, i) ==
    LET j == CHOOSE k \in (i - 1)..Len(s) :
                 /\ \A m \in i..k : ~isWhitespace(s[m])
                 /\ k = Len(s) \/ isWhitespace(s[k + 1])
    IN SubSeq(s, i, j)

\* the first character of input that is not white space is a slash
StartsWithSlash(input) ==
    \E i \in 1..Len(input) :
        input[i] = "/" /\ \A j \in 1..(i - 1) : isWhitespace(input[j])

\* what follows that slash, up to the last character that is not white space
Remainder(input) ==
    LET a == CHOOSE i \in 1..Len(input) :
                 ~isWhitespace(input[i]) /\ \A j \in 1..(i - 1) : isWhitespace(input[j])
        b == CHOOSE i \in 1..Len(input) :
                 ~isWhitespace(input[i]) /\ \A j \in (i + 1)..Len(input) : isWhitespace(input[j])
    IN SubSeq(input, a + 1, b)

\* the positions of s where a stretch without white space begins after white space
ArgStarts(s) == {i \in 2..Len(s) : isWhitespace(s[i - 1]) /\ ~isWhitespace(s[i])}

Word_default == <<"d", "e", "f", "a", "u", "l", "t">>
Word_sheet == <<"s", "h", "e", "e", "t">>
Word_hackathon == <<"h", "a", "c", "k", "a", "t", "h", "o", "n">>
Word_A1eq25 == <<"A", "1", "=", "2", "5">>
Input_sheetWrite ==
    <<"/">> \o Word_sheet \o <<"-", "w", "r", "i", "t", "e", " ">> \o Word_hackathon
        \o <<" ">> \o Word_A1eq25
Input_sheetList == <<"/">> \o Word_sheet \o <<"-", "l", "i", "s", "t">>
Input_foo == <<"/", "f", "o", "o">>

\* C23: for an input whose trimmed form begins with a slash, the head is the
\* stretch without white space right after the slash (empty when white space
\* follows the slash), the arguments are the later such stretches in order,
\* the extension id is the head up to its first dash and the command what
\* follows that dash, further dashes included; a head without a dash is the
\* extension id and the command is "default".  The three inputs of the
\* documentation parse as stated.
C23_ParseCommandShape ==
    /\ (parse.op \in {"parseCommand", "isValidCommand"} /\ ~parse.output.isNull)
       => LET r == Remainder(parse.input)
              head == RunAt(r, 1)
              o == parse.output
          IN /\ Len(o.args) = Cardinality(ArgStarts(r))
             /\ \A i \in ArgStarts(r) :
                   o.args[Cardinality({j \in ArgStarts(r) : j <= i})] = RunAt(r, i)
             /\ IF \A i \in 1..Len(head) : head[i] # "-"
                THEN o.extensionId = head /\ o.command = Word_default
                ELSE /\ \A i \in 1..Len(o.extensionId) : o.extensionId[i] # "-"
                     /\ o.extensionId \o <<"-">> \o o.command = head
             /\ o.raw = parse.input
    /\ parseCommand(Input_sheetWrite)
          = [isNull |-> FALSE, extensionId |-> Word_sheet,
             command |-> <<"w", "r", "i", "t", "e">>,
             args |-> <<Word_hackathon, Word_A1eq25>>, raw |-> Input_sheetWrite]
    /\ parseCommand(Input_sheetList)
          = [isNull |-> FALSE, extensionId |-> Word_sheet,
             command |-> <<"l", "i", "s", "t">>, args |-> << >>, raw |-> Input_sheetList]
    /\ parseCommand(Input_foo)
          = [isNull |-> FALSE, extensionId |-> <<"f", "o", "o">>,
             command |-> Word_default, args |-> << >>, raw |-> Input_foo]

\* "/a-- b": a head with two dashes and one argument was parsed
C23_Witness ==
    /\ parse.op = "parseCommand"
    /\ parse.input = <<"/", "a", "-", "-", " ", "b">>
    /\ parse.output.extensionId = <<"a">>
    /\ parse.output.command = <<"-">>
    /\ parse.output.args = << <<"b">> >>

C25_ProtocolStringAccepted ==
    /\ parse.op = "parseExtensionProtocol"
       => LET p == parse.input[1]
              n == 14
              Cuts == {i \in (n + 2)..(Len(p) - 1) :
                         /\ p[1] = "/" /\ p[2] = "u" /\ p[3] = "c" /\ p[4] = "/"
                         /\ <<p[5], p[6], p[7], p[8], p[9], p[10], p[11], p[12], p[13]>>
                               = <<"e", "x", "t", "e", "n", "s", "i", "o", "n">>
                         /\ p[14] = "/"
                         /\ p[i] = "/"
                         /\ \A j \in ((n + 1)..Len(p)) \ {i} : p[j] # "/"}
          IN /\ parse.output.matched <=> Cuts # {}
             /\ \A i \in Cuts :
                   /\ parse.output.extensionId = SubSeq(p, n + 1, i - 1)
                   /\ parse.output.version = SubSeq(p, i + 1, Len(p))
    /\ (/\ parse.op = "parseBack"
        /\ \A k \in 1..2 : /\ parse.input[k] # << >>
                           /\ \A j \in 1..Len(parse.input[k]) : parse.input[k][j] # "/")
       => parse.output = [matched |-> TRUE, extensionId |-> parse.input[1],
                          version |-> parse.input[2]]

\* the protocol string of extension "a1", version "1" was built and parsed back
C25_Witness ==
    /\ parse.op = "parseBack"
    /\ parse.input = << <<"a", "1">>, <<"1">> >>
    /\ parse.output.matched
    /\ parse.output.extensionId = <<"a", "1">>

\* C26: a pubsub response settles only calls whose request id it carries,
\* and one whose request id is not pending changes nothing; on a direct
\* stream, an exchange that ends without a response carrying the request id
\* of the attempt is a failure of that peer: the call does not succeed on it
\* and the installation keeps its record.
C26_ResponseMatchesRequest ==
    /\ [][notice'.op = "cmdHandleMessage"
          => /\ \A c \in psCalls : c \notin psCalls' => c.requestId = notice'.detail[1]
             /\ notice'.detail[1] \notin pendingRequests
                => psCalls' = psCalls /\ pendingRequests' = pendingRequests]_vars
    /\ [][\A c \in BagToSet(calls) :
             (/\ c.phase = "stream"
              /\ ~BagIn(c, calls')
              /\ notice'.attempts[Len(c.attempts)].answer # "matching")
             => /\ notice'.op = "executeCommand"
                /\ notice'.result \in {"dialed", "allFailed"}
                /\ installed' = installed
                /\ (notice'.attempts[Len(c.attempts)].answer = "other"
                    => \E e \in {[peerId |-> c.peerIds[c.i],
                                  message |-> "Invalid response"]} :
                          IF notice'.result = "allFailed"
                          THEN notice'.detail[Len(notice'.detail)] = e
                          ELSE \E d \in BagToSet(calls') :
                                  d.errors = Append(c.errors, e))]_vars

\* a response for a request of another node arrived while a request of this
\* node was pending, and was ignored
C26_Witness ==
    /\ notice.op = "cmdHandleMessage"
    /\ notice.result = "ignored"
    /\ pendingRequests # {}
    /\ \E c \in psCalls : c.phase = "wait"

\* the peers of a list of [peerId, message] entries, in order
PeersOf(entries) == [k \in 1..Len(entries) |-> entries[k].peerId]

\* C27: a call dials its candidates in list order starting with the first;
\* it ends with success on candidate i having contacted exactly candidates
\* 1..i, the earlier ones having failed, or with the aggregate error having
\* contacted the whole list; after a failure that is not the last
\* candidate's it dials the next candidate and no other.
C27_ContactedIsPrefix ==
    [][/\ \A d \in BagToSet(calls') :
             (/\ CopiesIn(d, calls') > CopiesIn(d, calls)
              /\ \A c \in BagToSet(calls) : CopiesIn(c, calls') >= CopiesIn(c, calls))
             => d.i = 1 /\ d.errors = << >> /\ notice'.detail = <<d.peerIds[1]>>
       /\ \A c \in BagToSet(calls) :
             CopiesIn(c, calls') < CopiesIn(c, calls)
             => /\ PeersOf(c.errors) = SubSeq(c.peerIds, 1, c.i - 1)
                /\ notice'.op = "executeCommand"
                /\ notice'.result \in {"success", "allFailed", "dialed", "opened"}
                /\ notice'.result = "success"
                   => /\ c.phase = "stream"
                      /\ PeersOf(notice'.detail) = SubSeq(c.peerIds, 1, c.i)
                      /\ calls' = calls (-) SetToBag({c})
                /\ notice'.result = "allFailed"
                   => /\ PeersOf(notice'.detail) = c.peerIds
                      /\ calls' = calls (-) SetToBag({c})
                /\ notice'.result = "opened"
                   => \E d \in BagToSet(calls') :
                         /\ d = [c EXCEPT !.phase = "stream", !.attempts = d.attempts]
                         /\ calls' = (calls (-) SetToBag({c})) (+) SetToBag({d})
                /\ notice'.result = "dialed"
                   => \E d \in BagToSet(calls') :
                         /\ d.peerIds = c.peerIds
                         /\ d.i = c.i + 1
                         /\ d.phase = "dial"
                         /\ PeersOf(d.errors) = SubSeq(c.peerIds, 1, c.i)
                         /\ notice'.detail = <<c.peerIds[c.i + 1]>>
                         /\ calls' = (calls (-) SetToBag({c})) (+) SetToBag({d})]_vars

\* the first candidate answered for another request, the second one answered
\* the request and the call returned
C27_Witness ==
    /\ notice.op = "executeCommand"
    /\ notice.result = "success"
    /\ Len(notice.detail) = 2
    /\ notice.detail[1].message = "Invalid response"
    /\ notice.attempts[1].answer = "other"

\* the streams of a list of attempts that are still open
OpenStreams(attempts) == {k \in 1..Len(attempts) : attempts[k].stream = "open"}

\* C28: a call that is dialing a candidate holds no open stream, a call in
\* an exchange holds exactly one, that of its current candidate, and a call
\* that has ended holds none: every earlier attempt has resolved and its
\* stream is closed or aborted before the next stream is opened.
C28_OneStreamAtATime ==
    /\ \A c \in BagToSet(calls) :
          /\ c.phase = "dial" => OpenStreams(c.attempts) = {}
          /\ c.phase = "stream"
             => /\ OpenStreams(c.attempts) = {Len(c.attempts)}
                /\ c.attempts[Len(c.attempts)].peerId = c.peerIds[c.i]
          /\ Len(c.attempts) <= c.i
          /\ \A k \in 1..Len(c.attempts) : \E j \in 1..c.i :
                c.attempts[k].peerId = c.peerIds[j]
    /\ (notice.op = "executeCommand" /\ calls = EmptyBag)
       => OpenStreams(notice.attempts) = {}

\* the stream to the first candidate was aborted and the stream to the
\* second candidate is open
C28_Witness ==
    \E c \in BagToSet(calls) :
        /\ c.phase = "stream"
        /\ c.i = 2
        /\ Len(c.attempts) = 2
        /\ c.attempts[1].stream = "aborted"
        /\ c.attempts[2].stream = "open"

\* C29: among the attempts of one call at most one remote peer has carried
\* out the command.
C29_AtMostOnePeerExecutes ==
    notice.op = "executeCommand"
    => Cardinality({k \in 1..Len(notice.attempts) : notice.attempts[k].executed}) <= 1

\* C30: when a manifest fetch has returned or thrown, and when a command
\* attempt has returned or thrown, the stream it opened is closed, or
\* aborted, and it is aborted only when close() failed.
C30_StreamsReleased ==
    /\ notice.op = "fetchManifest" => OpenStreams(notice.attempts) = {}
    /\ (notice.op = "executeCommand"
        /\ notice.result \in {"success", "allFailed", "dialed"})
       => OpenStreams(notice.attempts) = {}
    /\ \A c \in BagToSet(calls) :
          \A k \in 1..Len(c.attempts) :
             c.attempts[k].stream = "open" => (c.phase = "stream" /\ k = Len(c.attempts))
    /\ \A closes \in BOOLEAN : releaseStream(closes) = "aborted" <=> ~closes

\* a manifest arrived on a stream whose close() failed: the stream was
\* aborted and the offer recorded
C30_Witness ==
    /\ notice.op = "fetchManifest"
    /\ notice.result = "offer"
    /\ Len(notice.attempts) = 1
    /\ notice.attempts[1].stream = "aborted"

\* C31: when an identify event sights an extension that an offer or an
\* installation tracks, the peer is in the peer set of each of them afterwards
\* and no manifest fetch for that extension has been started.
C31_TrackedSightingNoFetch ==
    [][notice'.op = "handleIdentify"
       => \A k \in 2..Len(notice'.detail) :
             LET x == notice'.detail[k]
                 peerId == notice'.detail[1]
             IN (MapHas(offers, x) \/ MapHas(installed, x))
                => /\ \A f \in BagToSet(fetches') :
                         f.extensionId = x => CopiesIn(f, fetches') = CopiesIn(f, fetches)
                   /\ MapHas(offers, x)
                      => MapHas(offers', x) /\ includes(MapGet(offers', x).peerIds, peerId)
                   /\ MapHas(installed, x)
                      => /\ MapHas(installed', x)
                         /\ includes(MapGet(installed', x).peerIds, peerId)]_vars

\* pB was sighted advertising the extension pA's offer tracks: it is the
\* second peer of the offer and nothing is being fetched
C31_Witness ==
    /\ notice.op = "handleIdentify"
    /\ notice.detail = <<"pB", "sheet">>
    /\ MapHas(offers, "sheet")
    /\ MapGet(offers, "sheet").peerIds = <<"pA", "pB">>
    /\ fetches = EmptyBag

\* C32: a manifest fetch that fails changes neither map nor the stored
\* blob, notifies no listener and leaves one fetch fewer in flight; a fetch
\* that brings a manifest records the offer with its peer whatever failed
\* before; and as long as an extension is tracked by neither map, a sighting
\* of it by any peer starts a fetch.
C32_FetchFailureIsLocal ==
    /\ [][notice'.op = "fetchManifest"
          => /\ notice'.result = "none"
                => /\ offers' = offers
                   /\ installed' = installed
                   /\ storage' = storage
                   /\ notice'.notes = << >>
                   /\ BagCardinality(fetches') = BagCardinality(fetches) - 1
                   /\ \A f \in BagToSet(fetches') : CopiesIn(f, fetches') <= CopiesIn(f, fetches)
             /\ notice'.detail[2] # ""
                => /\ notice'.result = "offer"
                   /\ MapHas(offers', notice'.extensionId)
                   /\ includes(MapGet(offers', notice'.extensionId).peerIds,
                               notice'.detail[1])]_vars
    /\ [](\A x \in ExtIds, peerId \in Peers, v \in Versions :
             (~MapHas(offers, x) /\ ~MapHas(installed, x))
             => handleExtensionDiscovery(Cur, peerId, x, getExtensionProtocol(x, v)).fetches
                   = fetches (+) SetToBag({[peerId |-> peerId, extensionId |-> x,
                                            protocol |-> getExtensionProtocol(x, v)]}))

\* the fetch from pA failed while the offer recorded from pB stands
C32_Witness ==
    /\ notice.op = "fetchManifest"
    /\ notice.result = "none"
    /\ notice.detail[1] = "pA"
    /\ MapHas(offers, "sheet")
    /\ MapGet(offers, "sheet").peerIds = <<"pB">>

\* C33: every notification reaches every listener subscribed at that time,
\* those that throw and the others alike, and no one else; and with a
\* throwing listener subscribed, installExtension, uninstallExtension and
\* dismissOffer return what they return without one, with the change applied
\* and, for the installed map, stored.
C33_ListenerFailureIsolated ==
    /\ [](\A k \in 1..Len(notice.notes) : notice.notes[k].invoked = listeners)
    /\ [][(listeners \cap ThrowingListeners # {})
          => /\ (notice'.op = "installExtension"
                 /\ MapHas(offers, notice'.extensionId)
                 /\ ~MapHas(installed, notice'.extensionId))
                => /\ notice'.result = "true"
                   /\ MapHas(installed', notice'.extensionId)
                   /\ ~MapHas(offers', notice'.extensionId)
                   /\ storage' = [present |-> TRUE, valid |-> TRUE,
                                  data |-> JSONstringify(installed')]
                   /\ Len(notice'.notes) = 1
             /\ (notice'.op = "uninstallExtension" /\ MapHas(installed, notice'.extensionId))
                => /\ notice'.result = "true"
                   /\ ~MapHas(installed', notice'.extensionId)
                   /\ storage' = [present |-> TRUE, valid |-> TRUE,
                                  data |-> JSONstringify(installed')]
                   /\ Len(notice'.notes) = 1
             /\ (notice'.op = "dismissOffer" /\ MapHas(offers, notice'.extensionId))
                => ~MapHas(offers', notice'.extensionId) /\ Len(notice'.notes) = 1]_vars

\* an installation went through with both listeners subscribed, and both
\* were called, the one that throws included
C33_Witness ==
    /\ notice.op = "installExtension"
    /\ notice.result = "true"
    /\ listeners = {"l1", "lThrows"}
    /\ Len(notice.notes) = 1
    /\ notice.notes[1].invoked = {"l1", "lThrows"}
    /\ caught(notice.notes[1]) = {"lThrows"}
    /\ MapHas(installed, "sheet")

\* C34: a peer in an offer's peer set is still there after every step other
\* than removePeer, installExtension and dismissOffer, and the offer still
\* holds the manifest it held; in particular after the completion of a
\* second manifest fetch for the same extension.
C34_PeerStaysInOffer ==
    [][\A x \in ExtIds :
          (MapHas(offers, x)
           /\ notice'.op \notin {"removePeer", "installExtension", "dismissOffer"})
          => /\ MapHas(offers', x)
             /\ \A k \in 1..Len(MapGet(offers, x).peerIds) :
                   includes(MapGet(offers', x).peerIds, MapGet(offers, x).peerIds[k])
             /\ MapGet(offers', x).manifest = MapGet(offers, x).manifest]_vars

\* C35: an installation's lastSuccessfulPeerId, when set, is one of the
\* installation's peerIds, whatever removePeer, uninstallExtension and
\* installExtension did while a command was awaiting its response.
C35_LastSuccessfulPeerIsKnown ==
    \A x \in ExtIds :
       (MapHas(installed, x) /\ MapGet(installed, x).lastSuccessfulPeerId # NoPeer)
       => includes(MapGet(installed, x).peerIds, MapGet(installed, x).lastSuccessfulPeerId)

\* C36: every offer and every installation is stored under the id of the
\* manifest it holds, so that installExtension(offer.manifest.id), as the
\* offer banner calls it, finds the offer the banner shows.
C36_KeyIsManifestId ==
    \A x \in ExtIds :
       /\ MapHas(offers, x)
          => /\ MapGet(offers, x).manifest.id = x
             /\ MapHas(offers, MapGet(offers, x).manifest.id)
       /\ MapHas(installed, x) => MapGet(installed, x).manifest.id = x

\* C37: for every peer of an installed extension, the protocol executeCommand
\* dials for the extension (its id with the version of the installed
\* manifest) is among the protocols that peer has advertised.
C37_DialedProtocolWasAdvertised ==
    \A x \in ExtIds :
       MapHas(installed, x)
       => \A k \in 1..Len(getExtensionPeers(installed, x)) :
             executeCommandStart(installed, x).protocol
                \in advertised[getExtensionPeers(installed, x)[k]]

\* C38: while the manager is stopped, no step of discovery records an offer,
\* changes the peer set of an offer or of an installation, or calls a change
\* listener: neither an identify event nor the completion of a manifest
\* fetch that was awaited when stop was called, nor (pubsub variant) a
\* message of the discovery topic.
C38_StoppedManagerIsQuiet ==
    [][/\ (running = "stopped" /\ running' = "stopped"
           /\ notice'.op \in {"handleIdentify", "fetchManifest"})
          => /\ offers' = offers
             /\ \A x \in ExtIds :
                   MapHas(installed, x)
                   => /\ MapHas(installed', x)
                      /\ MapGet(installed', x).peerIds = MapGet(installed, x).peerIds
             /\ notice'.notes = << >>
       /\ (psRunning = "stopped" /\ psRunning' = "stopped"
           /\ notice'.op = "handleMessage")
          => /\ psOffers' = psOffers
             /\ notice'.notes = << >>]_vars

\* C39: once an executeCommand call of the pubsub protocol has returned or
\* thrown (by a response, the timeout, a publish failure or stop), its
\* requestId is not in pendingRequests and its timer is not armed.
C39_SettledCallLeavesNothing ==
    \A requestId \in requestIds :
       (~\E c \in psCalls : c.requestId = requestId)
       => /\ requestId \notin pendingRequests
          /\ requestId \notin timers

\* C40: when DirectMessage.send has returned or thrown, no stream it opened
\* is still open: it was closed, or aborted.
C40_SendReleasesStream ==
    notice.op = "dmSend"
    => \A k \in 1..Len(notice.attempts) :
          notice.attempts[k].stream \in {"closed", "aborted"}

====
